---- MODULE Spec2Model ----
(***************************************************************************)
(* A model of the layout tree of awkward (RecordArray), of the index       *)
(* normaliser (_slicing.py) and of the buffer codec (ak_from_buffers.py).  *)
(*                                                                         *)
(* The library is a set of synchronous pure operations.  A behaviour is one *)
(* call: the initial state holds the operation and its arguments (drawn     *)
(* from bounded sets), the action of that operation computes what the code  *)
(* returns or raises.                                                       *)
(***************************************************************************)
EXTENDS Integers, Sequences, FiniteSets, TLC

VARIABLES pc, call, result

vars == <<pc, call, result>>

(***************************************************************************)
(* Bounds of the model.                                                    *)
(***************************************************************************)
MaxLen == 2        \* longest leaf buffer of a record child
MaxFields == 2     \* most children of a RecordArray

(***************************************************************************)
(* Sentinels of the code.  Python's None, awkward's unknown_length and      *)
(* ak._util.unset are objects that are no integer; they are modelled by     *)
(* numbers outside every range of lengths the model draws.                  *)
(***************************************************************************)
None_ == -100
unknown_length == -101
unset == -102

(***************************************************************************)
(* Results of a call: a returned value or a raised exception.              *)
(***************************************************************************)
Return(v) == [raised |-> "", value |-> v]
Raise(e) == [raised |-> e]
NoResult == [raised |-> "pending"]
Ok(r) == r.raised = ""

Min2(a, b) == IF a <= b THEN a ELSE b
Max2(a, b) == IF a >= b THEN a ELSE b

RECURSIVE SeqsUpTo(_, _)
\* all sequences over S of length 0..n
SeqsUpTo(S, n) ==
    IF n = 0 THEN {<<>>}
    ELSE LET shorter == SeqsUpTo(S, n - 1)
         IN shorter \cup {Append(s, x) : s \in {t \in shorter : Len(t) = n - 1}, x \in S}

\* s[a:b] of Python for 0 <= a, b (clamped to the buffer)
Slice(s, a, b) ==
    LET lo == Min2(Max2(a, 0), Len(s))
        hi == Min2(Max2(b, 0), Len(s))
    IN IF hi <= lo THEN <<>> ELSE SubSeq(s, lo + 1, hi)

(***************************************************************************)
(* Content nodes.  A leaf is a NumpyArray; in the shape-only regime         *)
(* (backend "typetracer") it has no data and its length may be unknown.     *)
(***************************************************************************)
NumpyArray(data, dtype) ==
    [kind |-> "NumpyArray", backend |-> "cpu", dtype |-> dtype,
     data |-> data, length |-> Len(data), parameters |-> ""]

TypeTracerArray(length, dtype) ==
    [kind |-> "NumpyArray", backend |-> "typetracer", dtype |-> dtype,
     data |-> <<>>, length |-> length, parameters |-> ""]

EmptyArray ==
    [kind |-> "EmptyArray", backend |-> "cpu", length |-> 0, parameters |-> ""]

\* nplike.known_data (and nplike.known_shape): false of the shape-only regime
known_data(backend) == backend # "typetracer"

(***************************************************************************)
(* RecordArray.__init__                                                    *)
(*                                                                         *)
(* The fields argument is None (a tuple) or a list of names.               *)
(***************************************************************************)
FieldsNone == [is_none |-> TRUE, names |-> <<>>]
FieldsList(names) == [is_none |-> FALSE, names |-> names]

RECURSIVE MinLengthKnownData(_, _, _)
\* the loop of the materialised regime: length = min(length, content.length)
MinLengthKnownData(contents, i, length) ==
    IF i > Len(contents) THEN length
    ELSE MinLengthKnownData(contents, i + 1,
            IF length = None_ THEN contents[i].length
            ELSE Min2(length, contents[i].length))

RECURSIVE MinLengthUnknownData_degrading(_, _, _)
\* a loop without the breaks, in which a known length after an unknown one
\* takes its place
MinLengthUnknownData_degrading(contents, i, length) ==
    IF i > Len(contents) THEN length
    ELSE MinLengthUnknownData_degrading(contents, i + 1,
            IF length = None_ \/ length = unknown_length
            THEN contents[i].length
            ELSE IF contents[i].length = unknown_length
            THEN unknown_length
            ELSE Min2(length, contents[i].length))

RECURSIVE MinLengthUnknownData(_, _, _)
\* the loop of the shape-only regime, with its two breaks
MinLengthUnknownData(contents, i, length) ==
    IF i > Len(contents) THEN length
    ELSE IF length = None_
         THEN IF contents[i].length = unknown_length
              THEN unknown_length
              ELSE MinLengthUnknownData(contents, i + 1, contents[i].length)
         ELSE IF contents[i].length = unknown_length
              THEN unknown_length
              ELSE MinLengthUnknownData(contents, i + 1,
                                        Min2(length, contents[i].length))

\* CheckLength without the test for a record of no contents
CheckLength_noEmptyTest(contents, length, backend) ==
    IF length = unset
    THEN Raise("TypeError")
    ELSE IF length = None_
    THEN IF known_data(backend)
         THEN Return(MinLengthKnownData(contents, 1, None_))
         ELSE Return(MinLengthUnknownData(contents, 1, None_))
    ELSE IF length # unknown_length
    THEN IF \E i \in 1..Len(contents) :
                /\ contents[i].length # unknown_length
                /\ contents[i].length < length
         THEN Raise("ValueError")
         ELSE IF ~(length >= 0)
              THEN Raise("TypeError")
              ELSE Return(length)
    ELSE Return(length)

\* CheckLength taking the length of the first content for the minimum
CheckLength_firstContent(contents, length, backend) ==
    IF length = unset
    THEN Raise("TypeError")
    ELSE IF length = None_
    THEN IF Len(contents) = 0
         THEN Raise("TypeError")
         ELSE Return(contents[1].length)
    ELSE IF length # unknown_length
    THEN IF \E i \in 1..Len(contents) :
                /\ contents[i].length # unknown_length
                /\ contents[i].length < length
         THEN Raise("ValueError")
         ELSE IF ~(length >= 0)
              THEN Raise("TypeError")
              ELSE Return(length)
    ELSE Return(length)

\* the length of the new record: given (None_, unknown_length, unset or an
\* integer), inferred or rejected
CheckLength(contents, length, backend) ==
    IF length = unset
    THEN Raise("TypeError")                  \* int(length) of a non-number
    ELSE IF length = None_
    THEN IF Len(contents) = 0
         THEN Raise("TypeError")
         ELSE IF known_data(backend)
              THEN Return(MinLengthKnownData(contents, 1, None_))
              ELSE Return(MinLengthUnknownData(contents, 1, None_))
    ELSE IF length # unknown_length
    THEN IF \E i \in 1..Len(contents) :
                /\ contents[i].length # unknown_length
                /\ contents[i].length < length
         THEN Raise("ValueError")
         ELSE IF ~(length >= 0)
              THEN Raise("TypeError")
              ELSE Return(length)
    ELSE Return(length)

\* backend is the backend argument, used when no content gives one
RecordArray_init(contents, fields, length, parameters, backend) ==
    LET be == IF Len(contents) = 0 THEN backend ELSE contents[1].backend
        n == CheckLength(contents, length, be)
    IN IF ~Ok(n) THEN n
       ELSE IF ~fields.is_none /\ Len(contents) # Len(fields.names)
       THEN Raise("ValueError")
       ELSE Return([kind |-> "RecordArray", backend |-> be,
                    contents |-> contents, is_tuple |-> fields.is_none,
                    fields |-> fields.names, length |-> n.value,
                    parameters |-> parameters])

(***************************************************************************)
(* RecordArray._getitem_at                                                 *)
(***************************************************************************)
RecordArray_getitem_at_nolower(self, where) ==
    LET w == IF known_data(self.backend) /\ where < 0
             THEN where + self.length ELSE where
    IN IF ~(self.length = unknown_length \/ w < self.length)
       THEN Raise("IndexError")
       ELSE Return([kind |-> "Record", array |-> self, at |-> w])

RecordArray_getitem_at(self, where) ==
    LET w == IF known_data(self.backend) /\ where < 0
             THEN where + self.length ELSE where
    IN IF ~(self.length = unknown_length \/ (0 <= w /\ w < self.length))
       THEN Raise("IndexError")
       ELSE Return([kind |-> "Record", array |-> self, at |-> w])

(***************************************************************************)
(* Field lookup of a record (RecordForm.index_to_field, field_to_index,    *)
(* content) and RecordArray.content.  Children are numbered from 1 here,   *)
(* from 0 in the code: the code's position i is the model's i + 1.         *)
(***************************************************************************)
TupleName(i) == ToString(i - 1)

index_to_field(self, i) ==
    IF self.is_tuple THEN TupleName(i) ELSE self.fields[i]

has_field(self, field) ==
    IF self.is_tuple
    THEN \E i \in 1..Len(self.contents) : TupleName(i) = field
    ELSE \E i \in 1..Len(self.fields) : self.fields[i] = field

\* the first position of the name: field lookup is first-match
field_to_index(self, field) ==
    IF self.is_tuple
    THEN CHOOSE i \in 1..Len(self.contents) : TupleName(i) = field
    ELSE CHOOSE i \in 1..Len(self.fields) :
            /\ self.fields[i] = field
            /\ \A j \in 1..(i - 1) : self.fields[j] # field

RECURSIVE getitem_range(_, _, _)
\* content[start:stop] with 0 <= start in the materialised regime
getitem_range(content, start, stop) ==
    IF content.kind = "NumpyArray"
    THEN NumpyArray(Slice(content.data, start, stop), content.dtype)
    ELSE IF content.kind = "RecordArray"
    THEN LET lo == Min2(Max2(start, 0), content.length)
             hi == Min2(Max2(stop, 0), content.length)
         IN [content EXCEPT
                !.contents = [i \in 1..Len(content.contents) |->
                                 getitem_range(content.contents[i], lo, hi)],
                !.length = IF hi <= lo THEN 0 ELSE hi - lo]
    ELSE content

\* RecordArray.content: the child, trimmed to the record's length
RecordArray_content(self, index) ==
    LET out == self.contents[index]
    IN IF \/ self.length = unknown_length
          \/ out.length = unknown_length
          \/ out.length = self.length
       THEN out
       ELSE getitem_range(out, 0, self.length)

(***************************************************************************)
(* RecordArray._mergeable_next                                             *)
(***************************************************************************)
type_parameters_equal(p, q) == p = q
parameters_intersect(p, q) == IF p = q THEN p ELSE ""

is_identity_like(content) == content.kind = "EmptyArray"
is_union(content) == content.kind = "UnionArray"
is_option_or_indexed(content) ==
    content.kind \in {"IndexedArray", "IndexedOptionArray", "ByteMaskedArray",
                      "BitMaskedArray", "UnmaskedArray"}

SetOf(fields) == {fields[i] : i \in 1..Len(fields)}

RECURSIVE mergeable_next(_, _, _)

\* leaves merge unless exactly one is boolean and mergebool is off
NumpyArray_mergeable_next(self, other, mergebool) ==
    IF is_identity_like(other) \/ is_union(other) THEN TRUE
    ELSE IF is_option_or_indexed(other)
    THEN mergeable_next(self, other.content, mergebool)
    ELSE IF other.kind = "NumpyArray"
    THEN ~(/\ ~mergebool
           /\ self.dtype # other.dtype
           /\ (self.dtype = "bool" \/ other.dtype = "bool"))
    ELSE FALSE

\* _mergeable_next comparing field names position by position
RecordArray_mergeable_next_ordered(self, other, mergebool) ==
    IF is_identity_like(other) \/ is_union(other) THEN TRUE
    ELSE IF is_option_or_indexed(other)
    THEN mergeable_next(self, other.content, mergebool)
    ELSE IF ~type_parameters_equal(self.parameters, other.parameters)
    THEN FALSE
    ELSE IF other.kind = "RecordArray"
    THEN IF self.is_tuple /\ other.is_tuple
         THEN /\ Len(self.contents) = Len(other.contents)
              /\ \A i \in 1..Len(self.contents) :
                    mergeable_next(self.contents[i], other.contents[i], mergebool)
         ELSE IF ~self.is_tuple /\ ~other.is_tuple
         THEN /\ self.fields = other.fields
              /\ \A i \in 1..Len(self.fields) :
                    mergeable_next(self.contents[i], other.contents[i], mergebool)
         ELSE FALSE
    ELSE FALSE

\* a tuple pair of different arity falls off the end of the function and
\* returns None, which is false
RecordArray_mergeable_next(self, other, mergebool) ==
    IF is_identity_like(other) \/ is_union(other) THEN TRUE
    ELSE IF is_option_or_indexed(other)
    THEN mergeable_next(self, other.content, mergebool)
    ELSE IF ~type_parameters_equal(self.parameters, other.parameters)
    THEN FALSE
    ELSE IF other.kind = "RecordArray"
    THEN IF self.is_tuple /\ other.is_tuple
         THEN /\ Len(self.contents) = Len(other.contents)
              /\ \A i \in 1..Len(self.contents) :
                    mergeable_next(self.contents[i], other.contents[i], mergebool)
         ELSE IF ~self.is_tuple /\ ~other.is_tuple
         THEN /\ SetOf(self.fields) = SetOf(other.fields)
              /\ \A i \in 1..Len(self.fields) :
                    mergeable_next(
                        self.contents[i],
                        other.contents[field_to_index(other, self.fields[i])],
                        mergebool)
         ELSE FALSE
    ELSE FALSE

mergeable_next(self, other, mergebool) ==
    IF self.kind = "RecordArray"
    THEN RecordArray_mergeable_next(self, other, mergebool)
    ELSE NumpyArray_mergeable_next(self, other, mergebool)

(***************************************************************************)
(* RecordArray._mergemany (materialised regime)                            *)
(***************************************************************************)
\* Content._merging_strategy for operands that are records or empty: all
\* of them are merged at once and nothing is left for a reverse merge
merging_strategy(self, others) == [head |-> <<self>> \o others, tail |-> <<>>]

\* these_fields == those_fields for the two sorted copies of the field
\* lists: the lists hold the same names the same number of times
SortedFieldsEqual(these, those) ==
    /\ Len(these) = Len(those)
    /\ \A f \in SetOf(these) \cup SetOf(those) :
          Cardinality({i \in 1..Len(these) : these[i] = f})
              = Cardinality({i \in 1..Len(those) : those[i] = f})

\* array[field][0 : array.length]: Content.__getitem__ of a name goes to
\* RecordArray._getitem_field and fails when the record has no such field
GetitemFieldTrimmed(array, field) ==
    IF ~has_field(array, field)
    THEN Raise("FieldNotFoundError")
    ELSE Return(getitem_range(
                    RecordArray_content(array, field_to_index(array, field)),
                    0, array.length))

\* the first failure of a list of results
FirstFailure(results) ==
    results[CHOOSE i \in 1..Len(results) :
                ~Ok(results[i]) /\ \A j \in 1..(i - 1) : Ok(results[j])]

\* the fields of one operand taken by position
FieldsOfOperand_positional(self, array) ==
    Return([i \in 1..Len(self.contents) |->
               getitem_range(array.contents[i], 0, array.length)])

\* the fields of one operand, one per field of self, or the first failure
FieldsOfOperand(self, array) ==
    LET got == [i \in 1..Len(self.contents) |->
                    GetitemFieldTrimmed(array, index_to_field(self, i))]
    IN IF \E i \in 1..Len(got) : ~Ok(got[i])
       THEN FirstFailure(got)
       ELSE Return([i \in 1..Len(got) |-> got[i].value])

\* one iteration of the loop over headless when self is a tuple
MergeStepTuple(self, array, acc) ==
    IF array.kind = "EmptyArray" THEN Return(acc)
    ELSE IF array.kind = "RecordArray"
    THEN IF self.is_tuple                  \* tests self, never array
         THEN IF Len(self.contents) = Len(array.contents)
              THEN LET got == FieldsOfOperand(self, array)
                   IN IF ~Ok(got) THEN got
                      ELSE Return(
                             [for_each_field |->
                                 [i \in 1..Len(self.contents) |->
                                     Append(acc.for_each_field[i], got.value[i])],
                              parameters |->
                                 parameters_intersect(acc.parameters,
                                                      array.parameters)])
              ELSE Raise("ValueError")
         ELSE Raise("ValueError")
    ELSE Raise("AssertionError")

\* one iteration of the loop over headless when self is a named record
MergeStepNamed(self, array, acc) ==
    IF array.kind = "RecordArray"
    THEN IF ~array.is_tuple
         THEN IF SortedFieldsEqual(self.fields, array.fields)
              THEN LET got == FieldsOfOperand(self, array)
                   IN IF ~Ok(got) THEN got
                      ELSE Return(
                             [for_each_field |->
                                 [i \in 1..Len(self.contents) |->
                                     Append(acc.for_each_field[i], got.value[i])],
                              parameters |->
                                 parameters_intersect(acc.parameters,
                                                      array.parameters)])
              ELSE Raise("AssertionError")
         ELSE Raise("AssertionError")
    ELSE IF array.kind = "EmptyArray"
    THEN Return([acc EXCEPT !.parameters =
                    parameters_intersect(acc.parameters, array.parameters)])
    ELSE Raise("AssertionError")

RECURSIVE MergeLoop(_, _, _, _)
\* the loop over headless from its k-th array on
MergeLoop(self, headless, k, acc) ==
    IF k > Len(headless) THEN Return(acc)
    ELSE LET step == IF self.is_tuple
                     THEN MergeStepTuple(self, headless[k], acc)
                     ELSE MergeStepNamed(self, headless[k], acc)
         IN IF ~Ok(step) THEN step
            ELSE MergeLoop(self, headless, k + 1, step.value)

RECURSIVE MinLengthOfMerged(_, _, _)
\* the minlength of the merged fields, unset when there is none
MinLengthOfMerged(nextcontents, i, minlength) ==
    IF i > Len(nextcontents) THEN minlength
    ELSE MinLengthOfMerged(nextcontents, i + 1,
            IF \/ minlength = unset
               \/ (/\ ~(\/ nextcontents[i].length = unknown_length
                        \/ minlength = unknown_length)
                   /\ nextcontents[i].length < minlength)
            THEN nextcontents[i].length
            ELSE minlength)

RECURSIVE SumLengths(_)
SumLengths(others) ==
    IF Len(others) = 0 THEN 0 ELSE Head(others).length + SumLengths(Tail(others))

RECURSIVE ConcatData(_)
ConcatData(arrays) ==
    IF Len(arrays) = 0 THEN <<>>
    ELSE (IF Head(arrays).kind = "NumpyArray" THEN Head(arrays).data ELSE <<>>)
             \o ConcatData(Tail(arrays))

RECURSIVE mergemany(_, _)

\* leaves concatenate their buffers
NumpyArray_mergemany(self, others) ==
    IF Len(others) = 0 THEN Return(self)
    ELSE IF \E k \in 1..Len(others) :
               others[k].kind \notin {"NumpyArray", "EmptyArray"}
    THEN Raise("AssertionError")
    ELSE Return(NumpyArray(
                    ConcatData(<<self>> \o others),
                    IF \A k \in 1..Len(others) :
                          others[k].kind = "NumpyArray" => others[k].dtype = self.dtype
                    THEN self.dtype ELSE "int64"))

\* for_each_field before the loop: the fields of self, trimmed
FirstFields(self) ==
    [for_each_field |->
        [i \in 1..Len(self.contents) |->
            <<getitem_range(self.contents[i], 0, self.length)>>],
     parameters |-> self.parameters]

\* minlength after the loop over the merged fields
FinalLength(self, others, minlength) ==
    IF minlength = unknown_length
    THEN self.length + SumLengths(others)
    ELSE minlength

\* next = RecordArray(nextcontents, self._fields, minlength, ...)
MakeNext(self, others, parameters, nextcontents) ==
    RecordArray_init(
        nextcontents,
        IF self.is_tuple THEN FieldsNone ELSE FieldsList(self.fields),
        FinalLength(self, others, MinLengthOfMerged(nextcontents, 1, unset)),
        parameters, self.backend)

BuildMerged(self, others, parameters, merged) ==
    IF \E i \in 1..Len(merged) : ~Ok(merged[i])
    THEN FirstFailure(merged)
    ELSE MakeNext(self, others, parameters,
                  [i \in 1..Len(merged) |-> merged[i].value])

\* merged = forfield[0]._mergemany(forfield[1:]) for each field
MergeFields(self, others, looped) ==
    IF ~Ok(looped) THEN looped
    ELSE BuildMerged(self, others, looped.value.parameters,
            [i \in 1..Len(looped.value.for_each_field) |->
                mergemany(Head(looped.value.for_each_field[i]),
                          Tail(looped.value.for_each_field[i]))])

RecordArray_mergemany(self, others) ==
    IF Len(others) = 0 THEN Return(self)
    ELSE MergeFields(self, others,
            MergeLoop(self, Tail(merging_strategy(self, others).head), 1,
                      FirstFields(self)))

mergemany(self, others) ==
    IF self.kind = "RecordArray"
    THEN RecordArray_mergemany(self, others)
    ELSE NumpyArray_mergemany(self, others)

(***************************************************************************)
(* Packing: RecordArray.to_packed, reached through ak.packed.              *)
(***************************************************************************)
RECURSIVE to_packed_untrimmed(_)
\* to_packed packing every child as it is
to_packed_untrimmed(x) ==
    IF x.kind # "RecordArray" THEN Return(x)
    ELSE LET packed == [i \in 1..Len(x.contents) |->
                           to_packed_untrimmed(x.contents[i])]
         IN IF \E i \in 1..Len(packed) : ~Ok(packed[i])
            THEN FirstFailure(packed)
            ELSE RecordArray_init([i \in 1..Len(packed) |-> packed[i].value],
                                  IF x.is_tuple THEN FieldsNone
                                  ELSE FieldsList(x.fields),
                                  x.length, x.parameters, x.backend)

RECURSIVE to_packed(_)
\* a leaf packs to a contiguous copy of itself; a record packs each child,
\* cut to the record's length first when its length differs
to_packed(x) ==
    IF x.kind # "RecordArray" THEN Return(x)
    ELSE LET packed == [i \in 1..Len(x.contents) |->
                           to_packed(IF x.contents[i].length = x.length
                                     THEN x.contents[i]
                                     ELSE getitem_range(x.contents[i], 0,
                                                        x.length))]
         IN IF \E i \in 1..Len(packed) : ~Ok(packed[i])
            THEN FirstFailure(packed)
            ELSE RecordArray_init([i \in 1..Len(packed) |-> packed[i].value],
                                  IF x.is_tuple THEN FieldsNone
                                  ELSE FieldsList(x.fields),
                                  x.length, x.parameters, x.backend)

(***************************************************************************)
(* Index-over-range: RecordArray._getitem_range.                           *)
(***************************************************************************)
\* slice(start, stop).indices(length) and the length of the slice: a bound
\* that is None_ is the end it stands for, a negative bound counts from the
\* end, and both are clamped to 0..length
derive_slice_for_length(start, stop, length) ==
    LET lo == IF start = None_ THEN 0
              ELSE IF start < 0 THEN Max2(start + length, 0)
              ELSE Min2(start, length)
        hi == IF stop = None_ THEN length
              ELSE IF stop < 0 THEN Max2(stop + length, 0)
              ELSE Min2(stop, length)
    IN <<lo, hi, 1, hi - lo>>

RECURSIVE RecordArray_getitem_range(_, _, _)
RecordArray_getitem_range(self, start, stop) ==
    IF ~known_data(self.backend) THEN Return(self)
    ELSE IF self.length = unknown_length THEN Return(self)
    ELSE LET d == derive_slice_for_length(start, stop, self.length)
             contents == [i \in 1..Len(self.contents) |->
                             IF self.contents[i].kind = "RecordArray"
                             THEN RecordArray_getitem_range(self.contents[i],
                                                            d[1], d[2])
                             ELSE Return(getitem_range(self.contents[i],
                                                       d[1], d[2]))]
         IN IF \E i \in 1..Len(contents) : ~Ok(contents[i])
            THEN FirstFailure(contents)
            ELSE RecordArray_init([i \in 1..Len(contents) |-> contents[i].value],
                                  IF self.is_tuple THEN FieldsNone
                                  ELSE FieldsList(self.fields),
                                  d[4], self.parameters, self.backend)

(***************************************************************************)
(* Sorting: RecordArray._sort_next and RecordArray._argsort_next.          *)
(***************************************************************************)
RECURSIVE sort_next(_, _)
\* a leaf is sorted along its only axis; a tuple or a record of no fields
\* gives an empty leaf; any other record sorts each child by itself
sort_next(x, ascending) ==
    IF x.kind # "RecordArray"
    THEN Return(NumpyArray(SortSeq(x.data,
                                   LAMBDA a, b : IF ascending THEN a < b
                                                 ELSE a > b),
                           x.dtype))
    ELSE IF x.is_tuple \/ Len(x.fields) = 0
    THEN Return(NumpyArray(<<>>, "int64"))
    ELSE LET contents == [i \in 1..Len(x.contents) |->
                             sort_next(x.contents[i], ascending)]
         IN IF \E i \in 1..Len(contents) : ~Ok(contents[i])
            THEN FirstFailure(contents)
            ELSE RecordArray_init([i \in 1..Len(contents) |-> contents[i].value],
                                  FieldsList(x.fields), x.length, x.parameters,
                                  x.backend)

RecordArray_argsort_next(self, ascending) == Raise("NotImplementedError")

(***************************************************************************)
(* Inputs of the record operations.                                        *)
(***************************************************************************)
\* None for a tuple, or one name per child
FieldsOfArity(n) ==
    {FieldsNone} \cup
    {FieldsList(f) : f \in {g \in SeqsUpTo({"x", "0"}, MaxFields) : Len(g) = n}}

\* a record is built from leaves of every length, with an unknown length as
\* well in the shape-only regime, and any length argument
RecordCalls ==
    UNION {UNION {{[op |-> "RecordArray", contents |-> c, fields |-> f,
                    length |-> n, backend |-> b] :
                        f \in FieldsOfArity(Len(c)),
                        n \in {None_} \cup (-1..(MaxLen + 1))
                                \cup (IF b = "cpu" THEN {}
                                      ELSE {unknown_length})} :
                  c \in SeqsUpTo(
                          IF b = "cpu"
                          THEN {NumpyArray([i \in 1..n |-> 0], "int64") :
                                   n \in 0..MaxLen}
                          ELSE {TypeTracerArray(n, "int64") :
                                   n \in (0..MaxLen) \cup {unknown_length}},
                          MaxFields)} :
           b \in {"cpu", "typetracer"}}

\* a[index] for an integer index array: fails when a position is out of range
Take(a, index) ==
    IF \E k \in 1..Len(index) : index[k] >= Len(a) \/ index[k] < -Len(a)
    THEN Raise("IndexError")
    ELSE Return([k \in 1..Len(index) |->
                    IF index[k] < 0 THEN a[Len(a) + index[k] + 1]
                    ELSE a[index[k] + 1]])

(***************************************************************************)
(* RecordArray._carry                                                      *)
(*                                                                         *)
(* The outcome holds, next to the result, the carry's buffer as the call  *)
(* leaves it: with allow_lazy "copied" the adjustment of the negative     *)
(* positions is made on the caller's buffer, before the bounds test.      *)
(* allow_lazy is one of "False", "True" and "copied".                     *)
(***************************************************************************)
\* where[negative] += length, in the materialised regime only
AdjustNegative(where, length, backend) ==
    IF known_data(backend)
    THEN [k \in 1..Len(where) |->
             IF where[k] < 0 THEN where[k] + length ELSE where[k]]
    ELSE where

RECURSIVE carry_content(_, _)
\* content._carry(carry, False) of a child: NumPy's data[carry.data]
carry_content(content, carry) ==
    IF content.kind = "RecordArray"
    THEN LET contents == [i \in 1..Len(content.contents) |->
                             carry_content(RecordArray_content(content, i), carry)]
         IN IF \E i \in 1..Len(contents) : ~Ok(contents[i])
            THEN FirstFailure(contents)
            ELSE RecordArray_init([i \in 1..Len(contents) |-> contents[i].value],
                                  IF content.is_tuple THEN FieldsNone
                                  ELSE FieldsList(content.fields),
                                  Len(carry), content.parameters, content.backend)
    ELSE IF ~known_data(content.backend)
    THEN Return([content EXCEPT !.length = Len(carry)])
    ELSE LET data == Take(content.data, carry)
         IN IF ~Ok(data) THEN data
            ELSE Return([content EXCEPT !.data = data.value,
                                        !.length = Len(carry)])

RecordArray_carry(self, carry, allow_lazy) ==
    IF allow_lazy # "False"
    THEN LET where == AdjustNegative(carry, self.length, self.backend)
             after == IF allow_lazy = "copied" THEN where ELSE carry
         IN IF /\ known_data(self.backend)
               /\ \E k \in 1..Len(where) : where[k] >= self.length
            THEN [raised |-> "IndexError", carry |-> after]
            ELSE [raised |-> "", carry |-> after,
                  value |-> [kind |-> "IndexedArray", backend |-> self.backend,
                             index |-> where, content |-> self,
                             length |-> Len(where), parameters |-> ""]]
    ELSE LET out == carry_content(self, carry)
         IN IF Ok(out)
            THEN [raised |-> "", carry |-> carry, value |-> out.value]
            ELSE [raised |-> out.raised, carry |-> carry]

\* every RecordArray the constructor accepts
Records ==
    {r.value : r \in {x \in {RecordArray_init(c.contents, c.fields, c.length,
                                              "", c.backend) : c \in RecordCalls} :
                       Ok(x)}}

\* materialised records whose children hold distinct values and are each as
\* long as the record or longer, and tuples and records over one of those
LooseRecords ==
    LET Flat == UNION {{RecordArray_init(
                            [i \in 1..n |->
                                NumpyArray([k \in 1..(L + slack[i]) |-> 10 * i + k],
                                           "int64")],
                            f, L, "", "cpu").value :
                          L \in 0..MaxLen, slack \in [1..n -> 0..1],
                          f \in FieldsOfArity(n)} :
                       n \in 0..MaxFields}
    IN Flat \cup
       {x.value :
           x \in {y \in {RecordArray_init(<<r>>, f, L, "", "cpu") :
                            r \in {q \in Flat : Len(q.contents) = 1},
                            f \in FieldsOfArity(1), L \in 0..MaxLen} :
                     Ok(y)}}

(***************************************************************************)
(* The record specification: construction and index-at-position.          *)
(***************************************************************************)
InitRecord ==
    /\ pc = "call"
    /\ \/ call \in RecordCalls
       \/ \E r \in Records, i \in (-(MaxLen + 3))..(MaxLen + 2) :
             call = [op |-> "_getitem_at", self |-> r, where |-> i]
       \/ \E r \in LooseRecords : call = [op |-> "packed", array |-> r]
       \/ \E r \in LooseRecords
                    \cup {q \in Records : /\ q.backend = "typetracer"
                                          /\ Len(q.contents) <= 1},
             start, stop \in {None_} \cup ((-MaxLen - 1)..(MaxLen + 1)) :
             call = [op |-> "_getitem_range", self |-> r, start |-> start,
                     stop |-> stop]
       \/ \E r \in LooseRecords, ascending \in BOOLEAN,
             op \in {"_sort_next", "_argsort_next"} :
             call = [op |-> op, self |-> r, ascending |-> ascending]
       \/ \E r \in LooseRecords
                    \cup {q \in Records : /\ q.backend = "typetracer"
                                          /\ q.length # unknown_length
                                          /\ Len(q.contents) <= 1},
             carry \in SeqsUpTo((-(MaxLen + 1))..MaxLen, 2),
             allow_lazy \in {"False", "True", "copied"} :
             call = [op |-> "_carry", self |-> r, carry |-> carry,
                     allow_lazy |-> allow_lazy]
    /\ result = NoResult

Construct ==
    /\ pc = "call"
    /\ call.op = "RecordArray"
    /\ result' = RecordArray_init(call.contents, call.fields, call.length, "",
                                  call.backend)
    /\ pc' = "return"
    /\ UNCHANGED call

GetitemAt ==
    /\ pc = "call"
    /\ call.op = "_getitem_at"
    /\ result' = RecordArray_getitem_at(call.self, call.where)
    /\ pc' = "return"
    /\ UNCHANGED call

\* ak.packed of a layout, returned as a layout
Packed ==
    /\ pc = "call"
    /\ call.op = "packed"
    /\ result' = to_packed(call.array)
    /\ pc' = "return"
    /\ UNCHANGED call

GetitemRange ==
    /\ pc = "call"
    /\ call.op = "_getitem_range"
    /\ result' = RecordArray_getitem_range(call.self, call.start, call.stop)
    /\ pc' = "return"
    /\ UNCHANGED call

SortNext ==
    /\ pc = "call"
    /\ call.op = "_sort_next"
    /\ result' = sort_next(call.self, call.ascending)
    /\ pc' = "return"
    /\ UNCHANGED call

ArgsortNext ==
    /\ pc = "call"
    /\ call.op = "_argsort_next"
    /\ result' = RecordArray_argsort_next(call.self, call.ascending)
    /\ pc' = "return"
    /\ UNCHANGED call

CarryRecord ==
    /\ pc = "call"
    /\ call.op = "_carry"
    /\ result' = RecordArray_carry(call.self, call.carry, call.allow_lazy)
    /\ pc' = "return"
    /\ UNCHANGED call

SpecRecord ==
    InitRecord /\ [][Construct \/ GetitemAt \/ GetitemRange \/ Packed
                        \/ SortNext \/ ArgsortNext \/ CarryRecord]_vars

(***************************************************************************)
(* Inputs of the merge operations.                                         *)
(***************************************************************************)
\* records of length L whose children all have length L + slack; the leaf
\* values tell the operand (base) and the field (i) they come from
MergeOperands(base) ==
    UNION {{RecordArray_init(
                [i \in 1..n |->
                    NumpyArray([k \in 1..(L + slack) |-> base * 100 + i * 10 + k],
                               "int64")],
                f, L, "", "cpu").value :
              L \in 0..MaxLen, slack \in {0, 1}, f \in FieldsOfArity(n)} :
           n \in 0..MaxFields}

\* the operands, and tuples of one child that is itself a small record
MergemanyCalls ==
    LET NestedOperands(base) ==
            {RecordArray_init(<<r>>, FieldsNone, None_, "", "cpu").value :
                r \in {q \in MergeOperands(base) :
                          q.length <= 1 /\ Len(q.contents) <= 1}}
    IN
    {[op |-> "_mergemany", self |-> r, others |-> o] :
        r \in MergeOperands(1),
        o \in {<<>>, <<EmptyArray>>} \cup {<<q>> : q \in MergeOperands(2)}
                \cup {<<q, q>> : q \in MergeOperands(2)}}
    \cup
    {[op |-> "_mergemany", self |-> r, others |-> <<q>>] :
        r \in NestedOperands(1), q \in NestedOperands(2)}

\* the children the mergeability test tells apart
ChildTypes ==
    {NumpyArray(<<1>>, "int64"), NumpyArray(<<1>>, "bool"),
     RecordArray_init(<<NumpyArray(<<1>>, "int64")>>, FieldsNone, None_, "",
                      "cpu").value}

TypeRecords(parameters) ==
    UNION {{RecordArray_init(c, f, 1, parameters, "cpu").value :
              c \in [1..n -> ChildTypes], f \in FieldsOfArity(n)} :
           n \in 0..MaxFields}

IndexedOptionArray(index, content) ==
    [kind |-> "IndexedOptionArray", backend |-> content.backend,
     index |-> index, content |-> content, length |-> Len(index),
     parameters |-> ""]

MergeableCalls ==
    {[op |-> "_mergeable_next", self |-> r, other |-> q, mergebool |-> b] :
        r \in TypeRecords(""), q \in TypeRecords(""), b \in BOOLEAN}
    \cup
    {[op |-> "_mergeable_next", self |-> r, other |-> q, mergebool |-> FALSE] :
        r \in {t \in TypeRecords("") : Len(t.contents) <= 1},
        q \in {EmptyArray}
              \cup {t \in TypeRecords("point") : Len(t.contents) <= 1}
              \cup {IndexedOptionArray(<<0>>, t) :
                       t \in {u \in TypeRecords("") : Len(u.contents) <= 1}}}

(***************************************************************************)
(* The merge specification: the mergeability test and the merge.           *)
(***************************************************************************)
InitMerge ==
    /\ pc = "call"
    /\ call \in MergeableCalls \cup MergemanyCalls
    /\ result = NoResult

MergeableNext ==
    /\ pc = "call"
    /\ call.op = "_mergeable_next"
    /\ result' = Return(RecordArray_mergeable_next(call.self, call.other,
                                                   call.mergebool))
    /\ pc' = "return"
    /\ UNCHANGED call

Mergemany ==
    /\ pc = "call"
    /\ call.op = "_mergemany"
    /\ result' = RecordArray_mergemany(call.self, call.others)
    /\ pc' = "return"
    /\ UNCHANGED call

SpecMerge == InitMerge /\ [][MergeableNext \/ Mergemany]_vars

(***************************************************************************)
(* Index normalisation: _normalise_item_bool_to_int.                       *)
(*                                                                         *)
(* Buffers are sequences; the code's position p is the model's p + 1.      *)
(* Booleans of a buffer are 1 (true) and 0 (false), as NumPy stores them.  *)
(***************************************************************************)
ListOffsetArray(offsets, content) ==
    [kind |-> "ListOffsetArray", backend |-> content.backend,
     offsets |-> offsets, content |-> content, length |-> Len(offsets) - 1,
     parameters |-> ""]

ListArray(starts, stops, content) ==
    [kind |-> "ListArray", backend |-> content.backend, starts |-> starts,
     stops |-> stops, content |-> content, length |-> Len(starts),
     parameters |-> ""]

RegularArray(content, size, length) ==
    [kind |-> "RegularArray", backend |-> content.backend, size |-> size,
     content |-> content, length |-> length, parameters |-> ""]

\* the node read so far, its content being reconstituted with next_length;
\* next_length may have failed to compute
WithContent(node, next_length, content) ==
    IF ~Ok(next_length) THEN next_length
    ELSE IF ~Ok(content) THEN content
    ELSE Return([node EXCEPT !.content = content.value,
                             !.backend = content.value.backend])

RECURSIVE Carry(_, _)
\* content._carry(Index64(index), False), every entry of index being a
\* position of content: the elements at the positions of index, in order
Carry(content, index) ==
    LET at(a, shift) == [k \in 1..Len(index) |-> a[index[k] + 1 + shift]]
    IN IF content.kind = "NumpyArray"
       THEN [content EXCEPT !.data = at(@, 0), !.length = Len(index)]
       ELSE IF content.kind \in {"IndexedArray", "IndexedOptionArray"}
       THEN [content EXCEPT !.index = at(@, 0), !.length = Len(index)]
       ELSE IF content.kind = "ByteMaskedArray"
       THEN [content EXCEPT !.mask = at(@, 0), !.length = Len(index)]
       ELSE IF content.kind = "UnionArray"
       THEN [content EXCEPT !.tags = at(@, 0), !.index = at(@, 0),
                            !.length = Len(index)]
       ELSE IF content.kind = "ListOffsetArray"
       THEN ListArray(at(content.offsets, 0), at(content.offsets, 1),
                      content.content)
       ELSE IF content.kind = "ListArray"
       THEN ListArray(at(content.starts, 0), at(content.stops, 0),
                      content.content)
       ELSE IF content.kind = "RegularArray"
       THEN RegularArray(
                Carry(content.content,
                      [q \in 1..(Len(index) * content.size) |->
                          index[(q - 1) \div content.size + 1] * content.size
                              + ((q - 1) % content.size)]),
                content.size, Len(index))
       ELSE IF content.kind = "RecordArray"
       THEN [content EXCEPT
                !.contents = [i \in 1..Len(content.contents) |->
                                 Carry(content.contents[i], index)],
                !.length = Len(index)]
       ELSE content

RECURSIVE Compress(_, _, _)
\* the elements of a from position i on whose mask entry is true
Compress(a, mask, i) ==
    IF i > Len(a) THEN <<>>
    ELSE (IF mask[i] = 1 THEN <<a[i]>> ELSE <<>>) \o Compress(a, mask, i + 1)

\* a[mask] for a boolean mask: NumPy refuses a mask of another length
MaskSelect(a, mask) ==
    IF Len(a) # Len(mask) THEN Raise("IndexError")
    ELSE Return(Compress(a, mask, 1))

RECURSIVE Cumsum(_)
Cumsum(a) ==
    IF Len(a) = 0 THEN <<>>
    ELSE LET front == Cumsum(SubSeq(a, 1, Len(a) - 1))
         IN Append(front, (IF Len(front) = 0 THEN 0 ELSE front[Len(front)])
                              + a[Len(a)])

count_nonzero(a) == Cardinality({k \in 1..Len(a) : a[k] # 0})

\* the positions (from 0) of the true entries, in order
nonzero(a) == Compress([k \in 1..Len(a) |-> k - 1], a, 1)

arange(n) == [k \in 1..n |-> k - 1]

\* a copy of a with value at the positions where mask is true
SetWhere(a, mask, value) ==
    [k \in 1..Len(a) |-> IF mask[k] = 1 THEN value ELSE a[k]]

\* to_ListOffsetArray64(start_at_zero).  Of a ListOffsetArray: the offsets
\* are shifted to start at zero and the content before the first offset
\* dropped.  Of a ListArray whose sublists follow one another: its starts and
\* last stop as offsets; of another ListArray: offsets counted from zero over
\* the elements of the sublists gathered in order.  Of a RegularArray:
\* offsets size apart over the first length * size elements.
to_ListOffsetArray64(item, start_at_zero) ==
    IF item.kind = "RegularArray"
    THEN ListOffsetArray([k \in 1..(item.length + 1) |-> (k - 1) * item.size],
                         getitem_range(item.content, 0,
                                       item.length * item.size))
    ELSE IF /\ item.kind = "ListArray"
            /\ \E k \in 1..(Len(item.starts) - 1) :
                  item.starts[k + 1] # item.stops[k]
    THEN LET counts == [k \in 1..Len(item.starts) |->
                           item.stops[k] - item.starts[k]]
             offsets == <<0>> \o Cumsum(counts)
         IN ListOffsetArray(
                offsets,
                Carry(item.content,
                      [q \in 1..offsets[Len(offsets)] |->
                          LET k == CHOOSE j \in 1..Len(counts) :
                                      offsets[j] <= q - 1 /\ q - 1 < offsets[j + 1]
                          IN item.starts[k] + (q - 1 - offsets[k])]))
    ELSE LET next == IF item.kind = "ListOffsetArray" THEN item
                     ELSE ListOffsetArray(
                              IF Len(item.starts) = 0 THEN <<0>>
                              ELSE Append(item.starts,
                                          item.stops[Len(item.stops)]),
                              item.content)
         IN IF ~start_at_zero \/ next.offsets[1] = 0 THEN next
            ELSE ListOffsetArray(
                    [k \in 1..Len(next.offsets) |->
                        next.offsets[k] - next.offsets[1]],
                    getitem_range(next.content, next.offsets[1],
                                  next.content.length))

\* ak._do.local_index(item, axis=1).content.data: for every element of
\* every sublist, its position within the sublist
local_index_axis1(item) ==
    [q \in 1..(item.offsets[Len(item.offsets)] - item.offsets[1]) |->
        LET p == item.offsets[1] + q - 1
            k == CHOOSE j \in 1..(Len(item.offsets) - 1) :
                    item.offsets[j] <= p /\ p < item.offsets[j + 1]
        IN p - item.offsets[k]]

to_backend(content, backend) == [content EXCEPT !.backend = backend]

\* cumsum[item.offsets] for cumsum = [0] + cumsum(mask)
OffsetsOfCumsum(mask, offsets) == Take(<<0>> \o Cumsum(mask), offsets)

\* lines 495-517 with item already through to_ListOffsetArray64(True)
BoolListToInt(item, backend) ==
    LET nextcontent == MaskSelect(local_index_axis1(item), item.content.data)
        nextoffsets == OffsetsOfCumsum(item.content.data, item.offsets)
    IN IF ~Ok(nextcontent) THEN nextcontent
       ELSE IF ~Ok(nextoffsets) THEN nextoffsets
       ELSE Return(to_backend(
                ListOffsetArray(nextoffsets.value,
                                NumpyArray(nextcontent.value, "int64")),
                backend))

\* lines 495-517 without the shift of the offsets to zero
ListOffsetBool_noshift(item, backend) == BoolListToInt(item, backend)

\* ListOffsetArray over a boolean leaf
ListOffsetBool(item, backend) ==
    IF known_data(item.backend)
    THEN BoolListToInt(to_ListOffsetArray64(item, TRUE), backend)
    ELSE Return(to_backend(
             ListOffsetArray(item.offsets,
                             TypeTracerArray(unknown_length, "int64")),
             backend))

\* item.index.data < 0
IsNegative(index) == [k \in 1..Len(index) |-> IF index[k] < 0 THEN 1 ELSE 0]

\* the index with every missing entry written as -1
SafeIndex(index) ==
    IF \E k \in 1..Len(index) : index[k] < -1
    THEN SetWhere(index, IsNegative(index), -1)
    ELSE index

\* the boolean of every entry of the option index; a missing entry reads
\* the last boolean, and all are true when there is no boolean at all
Expanded(index, data) ==
    IF Len(data) > 0
    THEN Take(data, SafeIndex(index))
    ELSE Return([k \in 1..Len(index) |-> 1])

\* outindex[mask] = values on outindex = full(n, -1)
FullThenAssign(n, mask, values) ==
    IF Len(mask) # n THEN Raise("IndexError")
    ELSE IF count_nonzero(mask) # Len(values) THEN Raise("ValueError")
    ELSE Return([k \in 1..n |->
                    IF mask[k] = 1
                    THEN values[count_nonzero(SubSeq(mask, 1, k))]
                    ELSE -1])

LogicalNot(a) == [k \in 1..Len(a) |-> 1 - a[k]]

\* lines 546-577, expanded being read
ListOffsetOptionBoolBuild(item, backend, isnegative, expanded) ==
    LET nextcontent == MaskSelect(local_index_axis1(item),
                                  SetWhere(expanded, isnegative, 0))
        kept == SetWhere(expanded, isnegative, 1)
        nextoffsets == OffsetsOfCumsum(kept, item.offsets)
    IN IF ~Ok(nextcontent) THEN nextcontent
       ELSE IF ~Ok(nextoffsets) THEN nextoffsets
       ELSE LET outindex ==
                    FullThenAssign(
                        nextoffsets.value[Len(nextoffsets.value)],
                        LogicalNot(Compress(isnegative, kept, 1)),
                        arange(Len(nextcontent.value)))
            IN IF ~Ok(outindex) THEN outindex
               ELSE Return(to_backend(
                        ListOffsetArray(
                            nextoffsets.value,
                            IndexedOptionArray(
                                outindex.value,
                                NumpyArray(nextcontent.value, "int64"))),
                        backend))

\* ListOffsetArray over IndexedOptionArray over a boolean leaf
ListOffsetOptionBool(item, backend) ==
    IF item.backend = "jax" THEN Raise("TypeError")
    ELSE IF ~known_data(item.backend)
    THEN Return(to_backend(
             ListOffsetArray(
                 item.offsets,
                 IndexedOptionArray(item.content.index,
                                    TypeTracerArray(unknown_length, "int64"))),
             backend))
    ELSE LET expanded == Expanded(item.content.index, item.content.content.data)
         IN IF ~Ok(expanded) THEN expanded
            ELSE ListOffsetOptionBoolBuild(item, backend,
                     IsNegative(item.content.index), expanded.value)

\* lines 617-644, expanded being read
OptionBoolBuild(item, backend, isnegative, expanded) ==
    LET nextcontent == nonzero(SetWhere(expanded, isnegative, 0))
        kept == SetWhere(expanded, isnegative, 1)
        outindex == FullThenAssign(count_nonzero(kept),
                                   LogicalNot(Compress(isnegative, kept, 1)),
                                   arange(Len(nextcontent)))
    IN IF ~Ok(outindex) THEN outindex
       ELSE Return(to_backend(
                IndexedOptionArray(outindex.value,
                                   NumpyArray(nextcontent, "int64")),
                backend))

\* IndexedOptionArray over a boolean leaf
OptionBool(item, backend) ==
    IF item.backend = "jax" THEN Raise("TypeError")
    ELSE IF ~known_data(item.backend)
    THEN Return(to_backend(
             IndexedOptionArray(item.index,
                                TypeTracerArray(unknown_length, "int64")),
             backend))
    ELSE LET expanded == Expanded(item.index, item.content.data)
         IN IF ~Ok(expanded) THEN expanded
            ELSE OptionBoolBuild(item, backend, IsNegative(item.index),
                                 expanded.value)

IsBoolLeaf(content) == content.kind = "NumpyArray" /\ content.dtype = "bool"

\* the node of item's kind over the normalised content: ListOffsetArray(
\* item.offsets, content) or IndexedOptionArray(item.index, content), sent
\* to the backend
Rewrap(item, backend, content) ==
    IF ~Ok(content) THEN content
    ELSE Return([item EXCEPT !.content = content.value, !.backend = backend,
                             !.parameters = ""])

RECURSIVE normalise_item_bool_to_int(_, _)
normalise_item_bool_to_int(item, backend) ==
    IF item.kind = "ListOffsetArray" /\ IsBoolLeaf(item.content)
    THEN ListOffsetBool(item, backend)
    ELSE IF /\ item.kind = "ListOffsetArray"
            /\ item.content.kind = "IndexedOptionArray"
            /\ IsBoolLeaf(item.content.content)
    THEN ListOffsetOptionBool(item, backend)
    ELSE IF item.kind = "ListOffsetArray"
    THEN Rewrap(item, backend,
                    normalise_item_bool_to_int(item.content, backend))
    ELSE IF item.kind = "IndexedOptionArray"
    THEN IF item.content.kind = "ListOffsetArray"
         THEN Rewrap(item, backend,
                           normalise_item_bool_to_int(item.content, backend))
         ELSE IF IsBoolLeaf(item.content)
         THEN OptionBool(item, backend)
         ELSE Rewrap(item, backend,
                           normalise_item_bool_to_int(item.content, backend))
    ELSE IF item.kind = "NumpyArray"
    THEN Return(item)
    ELSE Raise("AssertionError")

(***************************************************************************)
(* Inputs of the boolean normalisation.                                    *)
(***************************************************************************)
MaxContent == 5     \* longest boolean leaf under a list
MaxLists == 3       \* most sublists of a ListOffsetArray
MaxOption == 2      \* longest option index, and longest leaf under it

NonDecreasing(s) == \A k \in 1..(Len(s) - 1) : s[k] <= s[k + 1]

\* the offsets of at most lists sublists ending at or before top
OffsetsUpTo(top, lists) ==
    UNION {{o \in [1..n -> 0..top] : NonDecreasing(o)} : n \in 1..(lists + 1)}

Bools(n) == [1..n -> {0, 1}]

OtherBoolItems ==
    {NumpyArray(<<0, 2>>, "int64"),
     ListOffsetArray(<<0, 2>>, NumpyArray(<<1, 0>>, "int64")),
     IndexedOptionArray(<<0, -1>>, NumpyArray(<<1>>, "int64")),
     [kind |-> "RecordArray", backend |-> "cpu", contents |-> <<>>,
      is_tuple |-> TRUE, fields |-> <<>>, length |-> 1, parameters |-> ""],
     ListOffsetArray(<<0, 1>>, TypeTracerArray(1, "bool")),
     IndexedOptionArray(<<0, -1>>, TypeTracerArray(1, "bool")),
     ListOffsetArray(<<0, 2>>,
                     IndexedOptionArray(<<0, -1>>, TypeTracerArray(1, "bool")))}
    \cup {ListOffsetArray(<<0, 1>>, ListOffsetArray(<<0, 2>>, c)) :
             c \in {NumpyArray(b, "bool") : b \in Bools(2)}}
    \cup {IndexedOptionArray(<<0, -1>>, ListOffsetArray(<<0, 2>>, c)) :
             c \in {NumpyArray(b, "bool") : b \in Bools(2)}}

BoolToIntCall(item) ==
    [op |-> "_normalise_item_bool_to_int", item |-> item,
     backend |-> item.backend]

\* lists over a boolean leaf that ends at the last offset, the offsets
\* starting anywhere; option indexes over a boolean leaf of length n, bare
\* or under lists whose offsets need not start at 0 nor cover the whole
\* index, every entry being missing (-1, or -2 as a rare other negative) or
\* a position of the leaf
InitBoolToInt ==
    /\ pc = "call"
    /\ result = NoResult
    /\ \/ \E o \in OffsetsUpTo(MaxContent, MaxLists) :
             \E b \in Bools(o[Len(o)]) :
                call = BoolToIntCall(ListOffsetArray(o, NumpyArray(b, "bool")))
       \/ \E n, k \in 0..MaxOption :
             \E ix \in [1..k -> -2..(n - 1)] : \E b \in Bools(n) :
             \/ call = BoolToIntCall(
                          IndexedOptionArray(ix, NumpyArray(b, "bool")))
             \/ \E o \in OffsetsUpTo(Len(ix), MaxOption) :
                   call = BoolToIntCall(
                             ListOffsetArray(
                                 o, IndexedOptionArray(ix, NumpyArray(b, "bool"))))
       \/ \E item \in OtherBoolItems : call = BoolToIntCall(item)

NormaliseBoolToInt ==
    /\ pc = "call"
    /\ call.op = "_normalise_item_bool_to_int"
    /\ result' = normalise_item_bool_to_int(call.item, call.backend)
    /\ pc' = "return"
    /\ UNCHANGED call

SpecBoolToInt == InitBoolToInt /\ [][NormaliseBoolToInt]_vars

(***************************************************************************)
(* Index preparation: prepare_advanced_indexing.  A slice item is an       *)
(* integer, a slice, a field name, a list of field names, np.newaxis,      *)
(* Ellipsis, an array of the index nplike (dtype, shape, row-major data)   *)
(* or a Content.                                                           *)
(***************************************************************************)
Item(kind, dtype, shape, data) ==
    [kind |-> kind, dtype |-> dtype, shape |-> shape, data |-> data]

\* an item other than an integer or an array: "slice", "str", "list" (of
\* field names), "newaxis" or "Ellipsis"
Plain(kind) == Item(kind, "", <<>>, <<>>)

\* ak.index.Index64(data), with metadata["shape"] when has_shape
Index64(data, has_shape, shape) ==
    [kind |-> "Index64", data |-> data, has_shape |-> has_shape, shape |-> shape]

IsContent(item) ==
    item.kind \in {"NumpyArray", "EmptyArray", "RecordArray", "ListOffsetArray",
                   "IndexedOptionArray", "ListArray", "RegularArray",
                   "IndexedArray", "ByteMaskedArray", "BitMaskedArray",
                   "UnmaskedArray", "UnionArray"}

\* the items that take no part in broadcasting
NotBroadcast(item) ==
    item.kind \in {"slice", "list", "ListOffsetArray", "IndexedOptionArray",
                   "str", "newaxis", "Ellipsis"}

broadcastable(items) == SelectSeq(items, LAMBDA item : ~NotBroadcast(item))

n_awkward_contents(items) ==
    Cardinality({i \in 1..Len(items) : IsContent(items[i])})

\* the mixed rule, with at most one Content allowed beside broadcastables
MixedIndexing_moreThanOne(items) ==
    \/ n_awkward_contents(items) > 1
    \/ (n_awkward_contents(items) = 1 /\ Len(broadcastable(items)) > 1)

\* mixed Awkward-NumPy style indexing
MixedIndexing(items) ==
    \/ n_awkward_contents(items) > 1
    \/ (n_awkward_contents(items) = 1 /\ Len(broadcastable(items)) # 0)

\* a shape of at most two dimensions, written with two
Pad(shape) ==
    IF Len(shape) = 0 THEN <<1, 1>>
    ELSE IF Len(shape) = 1 THEN <<1, shape[1]>>
    ELSE shape

\* the extents other than 1 that the arrays have in dimension d
Extents(arrays, d) ==
    {Pad(arrays[i].shape)[d] : i \in 1..Len(arrays)} \ {1}

\* numpy broadcasts when no dimension has two extents other than 1
CanBroadcast(arrays) ==
    \A d \in 1..2 : Cardinality(Extents(arrays, d)) <= 1

BroadcastDim(arrays, d) ==
    IF Extents(arrays, d) = {} THEN 1
    ELSE CHOOSE x \in Extents(arrays, d) : TRUE

BroadcastShape(arrays) ==
    IF \E i \in 1..Len(arrays) : Len(arrays[i].shape) = 2
    THEN <<BroadcastDim(arrays, 1), BroadcastDim(arrays, 2)>>
    ELSE IF \E i \in 1..Len(arrays) : Len(arrays[i].shape) = 1
    THEN <<BroadcastDim(arrays, 2)>>
    ELSE <<>>

\* x repeated along its dimensions of extent 1 up to shape
BroadcastTo(x, shape) ==
    [x EXCEPT
        !.shape = shape,
        !.data = [q \in 1..(Pad(shape)[1] * Pad(shape)[2]) |->
                    x.data[(IF Pad(x.shape)[1] = 1 THEN 0
                            ELSE (q - 1) \div Pad(shape)[2]) * Pad(x.shape)[2]
                           + (IF Pad(x.shape)[2] = 1 THEN 0
                              ELSE (q - 1) % Pad(shape)[2])
                           + 1]]]

\* nplike.broadcast_arrays(*broadcastable)
broadcast_arrays(arrays) ==
    [j \in 1..Len(arrays) |-> BroadcastTo(arrays[j], BroadcastShape(arrays))]

\* nplike.nonzero(x) of a two-dimensional x: the rows, then the columns
Nonzero2(x) ==
    LET flat == nonzero(x.data)
    IN << [k \in 1..Len(flat) |-> flat[k] \div x.shape[2]],
          [k \in 1..Len(flat) |-> flat[k] % x.shape[2]] >>

\* what one broadcasted item appends to prepared
PrepareOne(x) ==
    IF Len(x.shape) = 0 THEN Return(<<Item("int", "int64", <<>>, <<x.data[1]>>)>>)
    ELSE IF x.dtype \in {"int64", "int32"}
    THEN Return(<<Index64(x.data, TRUE, x.shape)>>)
    ELSE IF x.dtype = "bool"
    THEN IF Len(x.shape) = 1
         THEN Return(<<Index64(nonzero(x.data), TRUE,
                               <<count_nonzero(x.data)>>)>>)
         ELSE Return(<<Index64(Nonzero2(x)[1], FALSE, <<>>),
                       Index64(Nonzero2(x)[2], FALSE, <<>>)>>)
    ELSE Raise("TypeError")

\* prepared.extend(...) for item i
PrepareAppend(prepared, items, broadcasted, i) ==
    IF NotBroadcast(items[i]) THEN Return(prepared \o <<items[i]>>)
    ELSE IF ~Ok(PrepareOne(broadcasted[Len(broadcastable(SubSeq(items, 1, i)))]))
    THEN PrepareOne(broadcasted[Len(broadcastable(SubSeq(items, 1, i)))])
    ELSE Return(prepared \o
                PrepareOne(broadcasted[Len(broadcastable(SubSeq(items, 1, i)))]).value)

RECURSIVE PrepareFrom(_, _, _, _)
\* the loop over zip(broadcastable_index, items) from item i on
PrepareFrom(prepared, items, broadcasted, i) ==
    IF i > Len(items) THEN Return(prepared)
    ELSE IF ~Ok(PrepareAppend(prepared, items, broadcasted, i))
    THEN PrepareAppend(prepared, items, broadcasted, i)
    ELSE PrepareFrom(PrepareAppend(prepared, items, broadcasted, i).value,
                     items, broadcasted, i + 1)

IsIndex(item) == item.kind = "Index64"
IsSeparator_noEllipsis(item) == item.kind \in {"newaxis", "slice"}
IsSeparator(item) == item.kind \in {"newaxis", "Ellipsis", "slice"}

\* the position at which `for item in it` breaks, the iterator standing
\* before position i: the first position from i on whose item is wanted, or
\* past the end
BreakAtIndex(prepared, i) ==
    IF \E k \in i..Len(prepared) : IsIndex(prepared[k])
    THEN CHOOSE k \in i..Len(prepared) :
            /\ IsIndex(prepared[k])
            /\ \A j \in i..(k - 1) : ~IsIndex(prepared[j])
    ELSE Len(prepared) + 1

BreakAtSeparator(prepared, i) ==
    IF \E k \in i..Len(prepared) : IsSeparator(prepared[k])
    THEN CHOOSE k \in i..Len(prepared) :
            /\ IsSeparator(prepared[k])
            /\ \A j \in i..(k - 1) : ~IsSeparator(prepared[j])
    ELSE Len(prepared) + 1

\* the finite-state machine: an array, then a separator, then an array
SeparatedArrays(prepared) ==
    \E k \in (BreakAtSeparator(prepared, BreakAtIndex(prepared, 1) + 1) + 1)
                ..Len(prepared) :
        IsIndex(prepared[k])

MixedError == "ValueError: cannot mix Awkward slicing with NumPy advanced slicing"
SeparatedError == "ValueError: array indices separated by None, Ellipsis, or slice"
BroadcastError == "ValueError: shape mismatch"

prepare_advanced_indexing(items) ==
    IF MixedIndexing(items) THEN Raise(MixedError)
    ELSE IF ~CanBroadcast(broadcastable(items)) THEN Raise(BroadcastError)
    ELSE LET prepared ==
                 PrepareFrom(<<>>, items,
                             broadcast_arrays(broadcastable(items)), 1)
         IN IF ~Ok(prepared) THEN prepared
            ELSE IF SeparatedArrays(prepared.value) THEN Raise(SeparatedError)
            ELSE Return(prepared.value)

(***************************************************************************)
(* Index normalisation: normalise_item and _normalise_item_nested.  An     *)
(* index item as the caller wrote it is an integer, a slice, a field name, *)
(* np.newaxis, Ellipsis, a Content, an ak.Array over a layout, an array of *)
(* an array library ("ndarray": dtype, shape, data), another sized         *)
(* iterable ("iterable": its length, whether all its elements are strings, *)
(* and the layout ak.to_layout makes of it) or any other object.           *)
(***************************************************************************)
\* item.mask_as_bool(valid_when=True): 1 where the element is valid
mask_as_bool(item) ==
    [k \in 1..item.length |->
        IF item.kind = "UnmaskedArray" THEN 1
        ELSE IF item.kind = "ByteMaskedArray"
        THEN IF (item.mask[k] # 0) = item.valid_when THEN 1 ELSE 0
        ELSE LET bit == IF item.lsb_order THEN (k - 1) % 8 ELSE 7 - ((k - 1) % 8)
             IN IF ((item.mask[(k - 1) \div 8 + 1] \div 2^bit) % 2 = 1)
                      = item.valid_when
                THEN 1 ELSE 0]

\* lines 415-423 and 440-451: the option index over the projected content,
\* valid being 1 at the elements kept and null the index of the others
ProjectedOption(valid, null, nextcontent) ==
    WithContent(
        IndexedOptionArray(
            [k \in 1..Len(valid) |->
                IF valid[k] = 1 THEN count_nonzero(SubSeq(valid, 1, k - 1))
                ELSE null[k]],
            EmptyArray),
        Return(0), nextcontent)

RECURSIVE normalise_item_nested(_)
normalise_item_nested(item) ==
    IF item.kind = "EmptyArray"
    THEN normalise_item_nested(NumpyArray(<<>>, "int64"))
    ELSE IF item.kind = "NumpyArray" /\ item.dtype \in {"bool", "int64", "int32"}
    THEN Return([item EXCEPT !.dtype = IF @ = "bool" THEN "bool" ELSE "int64"])
    ELSE IF item.kind = "ListOffsetArray"
    THEN WithContent(item, Return(0), normalise_item_nested(item.content))
    ELSE IF item.kind \in {"ListArray", "RegularArray"}
    THEN normalise_item_nested(to_ListOffsetArray64(item, FALSE))
    ELSE IF is_option_or_indexed(item) /\ is_option_or_indexed(item.content)
    THEN Raise("RecursionError")
    ELSE IF item.kind = "IndexedArray"
    THEN normalise_item_nested(Carry(item.content, item.index))
    ELSE IF item.kind = "IndexedOptionArray"
    THEN ProjectedOption(
             LogicalNot(IsNegative(item.index)), item.index,
             normalise_item_nested(
                 Carry(item.content,
                       Compress(item.index, LogicalNot(IsNegative(item.index)),
                                1))))
    ELSE IF item.kind \in {"ByteMaskedArray", "BitMaskedArray", "UnmaskedArray"}
    THEN ProjectedOption(
             mask_as_bool(item), [k \in 1..item.length |-> -1],
             normalise_item_nested(
                 Carry(item.content, nonzero(mask_as_bool(item)))))
    ELSE Raise("TypeError")

RECURSIVE normalise_item(_, _)
normalise_item(item, backend) ==
    IF item.kind \in {"int", "slice", "str", "newaxis", "Ellipsis"}
    THEN Return(item)
    ELSE IF item.kind = "Array"
    THEN normalise_item(item.layout, backend)
    ELSE IF item.kind = "EmptyArray"
    THEN normalise_item(NumpyArray(<<>>, "int64"), backend)
    ELSE IF item.kind = "NumpyArray"
    THEN Return(Item("array", item.dtype, <<Len(item.data)>>, item.data))
    ELSE IF item.kind = "RegularArray" /\ item.content.kind = "NumpyArray"
    THEN Return(Item("array", item.content.dtype, <<item.length, item.size>>,
                     Slice(item.content.data, 0, item.length * item.size)))
    ELSE IF IsContent(item)
    THEN LET nested == normalise_item_nested(item)
             out == normalise_item_bool_to_int(nested.value, backend)
         IN IF ~Ok(nested) THEN nested
            ELSE IF ~Ok(out) THEN out
            ELSE IF out.value.kind # "NumpyArray" THEN out
            ELSE IF item.kind = "RegularArray" THEN Raise("AssertionError")
            ELSE Return(Item("array", out.value.dtype,
                             <<Len(out.value.data)>>, out.value.data))
    ELSE IF item.kind = "ndarray"
    THEN IF Len(item.shape) = 0 THEN Raise("NotImplementedError")
         ELSE normalise_item(NumpyArray(item.data, item.dtype), backend)
    ELSE IF item.kind = "iterable"
    THEN IF item.len = 0 THEN Return(Item("array", "int64", <<0>>, <<>>))
         ELSE IF item.all_str THEN Return(Plain("list"))
         ELSE normalise_item(item.layout, backend)
    ELSE Raise("TypeError")

\* ak._backends.common_backend: the one backend of the arrays, the
\* shape-only backend when it stands next to a concrete one, and an error for
\* two concrete array libraries
common_backend(backends) ==
    IF Cardinality(backends) = 1 THEN Return(CHOOSE b \in backends : TRUE)
    ELSE IF "typetracer" \in backends THEN Return("typetracer")
    ELSE Raise("ValueError: cannot operate on arrays with incompatible array libraries")

\* ak._backends.backend_of(*objects, default=default): the common backend
\* of the objects that are arrays, the default when none is
backend_of(objects, default) ==
    LET backends == {IF objects[i].kind = "Array" THEN objects[i].layout.backend
                     ELSE objects[i].backend :
                        i \in {j \in 1..Len(objects) :
                                  \/ objects[j].kind = "Array"
                                  \/ IsContent(objects[j])}}
    IN IF backends = {} THEN Return(default) ELSE common_backend(backends)

\* the items normalised against the backend of the sliced array, whatever
\* the backends of the items are
normalise_items_own(where, backend) ==
    LET items == [i \in 1..Len(where) |-> normalise_item(where[i], backend)]
    IN IF \E i \in 1..Len(items) : ~Ok(items[i]) THEN FirstFailure(items)
       ELSE Return([i \in 1..Len(items) |-> items[i].value])

\* [normalise_item(x, backend=common_backend) for x in where]
normalise_items(where, backend) ==
    LET where_backend == backend_of(where, backend)
        common == IF ~Ok(where_backend) THEN where_backend
                  ELSE common_backend({backend, where_backend.value})
        items == [i \in 1..Len(where) |-> normalise_item(where[i], common.value)]
    IN IF ~Ok(common) THEN common
       ELSE IF \E i \in 1..Len(items) : ~Ok(items[i]) THEN FirstFailure(items)
       ELSE Return([i \in 1..Len(items) |-> items[i].value])

(***************************************************************************)
(* Inputs of the index preparation: the items normalise_item returns.      *)
(***************************************************************************)
MaxItems == 3       \* most items of an index expression

SliceItems ==
    {Item("int", "int64", <<>>, <<0>>), Item("int", "int64", <<>>, <<1>>),
     Plain("slice"), Plain("str"), Plain("list"), Plain("newaxis"),
     Plain("Ellipsis"),
     Item("array", "int64", <<0>>, <<>>),
     Item("array", "int64", <<1>>, <<0>>),
     Item("array", "int64", <<2>>, <<0, 1>>),
     Item("array", "int64", <<3>>, <<0, 1, 2>>),
     Item("array", "int32", <<2, 1>>, <<1, 0>>),
     Item("array", "bool", <<2>>, <<1, 0>>),
     Item("array", "bool", <<2, 2>>, <<1, 0, 0, 1>>),
     Item("array", "float64", <<1>>, <<0>>),
     ListOffsetArray(<<0, 1>>, NumpyArray(<<0>>, "int64")),
     IndexedOptionArray(<<0, -1>>, NumpyArray(<<0>>, "int64"))}

\* the index items a caller may write: the valid ones, and objects, arrays
\* of floating-point numbers (flat or nested), zero-dimensional arrays,
\* records and unions
WhereItems ==
    LET ints == NumpyArray(<<1, 0>>, "int64")
        bools == NumpyArray(<<1, 0>>, "bool")
        floats == NumpyArray(<<1, 0>>, "float64")
        record == RecordArray_init(<<ints>>, FieldsNone, None_, "", "cpu").value
        union == [kind |-> "UnionArray", backend |-> "cpu", tags |-> <<0, 1>>,
                  index |-> <<0, 0>>, contents |-> <<ints, floats>>,
                  length |-> 2, parameters |-> ""]
        indexed(c) == [kind |-> "IndexedArray", backend |-> "cpu",
                       index |-> <<1, 1>>, content |-> c, length |-> 2,
                       parameters |-> ""]
        masked(kind, c) == [kind |-> kind, backend |-> "cpu", mask |-> <<2, 0>>,
                            content |-> c, valid_when |-> FALSE,
                            lsb_order |-> TRUE, length |-> 2,
                            parameters |-> ""]
        unmasked(c) == [kind |-> "UnmaskedArray", backend |-> "cpu",
                        content |-> c, length |-> 2, parameters |-> ""]
        iterable(n, strs, layout) == [kind |-> "iterable", len |-> n,
                                      all_str |-> strs, layout |-> layout]
        contents ==
            {EmptyArray, ints, bools, floats, record, union,
             NumpyArray(<<1, 0>>, "int32"),
             RegularArray(ints, 1, 2), RegularArray(floats, 1, 2),
             RegularArray(IndexedOptionArray(<<1, -1>>, ints), 1, 2),
             ListOffsetArray(<<1, 2>>, ints), ListOffsetArray(<<0, 2>>, bools),
             ListOffsetArray(<<0, 2>>, floats), ListOffsetArray(<<0, 2>>, record),
             ListOffsetArray(<<0, 2>>, union),
             ListArray(<<1, 0>>, <<2, 1>>, ints),
             ListArray(<<0, 1>>, <<1, 2>>, floats),
             indexed(ints), indexed(floats), indexed(record),
             IndexedOptionArray(<<1, -2>>, ints),
             IndexedOptionArray(<<-1, 0>>, bools),
             IndexedOptionArray(<<1, -1>>, floats),
             IndexedOptionArray(<<0, -1>>, ListOffsetArray(<<0, 2>>, ints)),
             IndexedOptionArray(<<0, -1>>, unmasked(ints)),
             masked("ByteMaskedArray", ints), masked("BitMaskedArray", ints),
             masked("ByteMaskedArray", floats),
             unmasked(ints), unmasked(floats), unmasked(union)}
    IN contents
       \cup {Item("int", "int64", <<>>, <<1>>), Plain("slice"), Plain("str"),
             Plain("newaxis"), Plain("Ellipsis"), [kind |-> "object"],
             [kind |-> "Array", layout |-> ListOffsetArray(<<0, 2>>, ints)],
             [kind |-> "Array", layout |-> record],
             Item("ndarray", "int64", <<2>>, <<1, 0>>),
             Item("ndarray", "bool", <<2>>, <<1, 0>>),
             Item("ndarray", "float64", <<2>>, <<1, 0>>),
             Item("ndarray", "int64", <<>>, <<1>>),
             Item("ndarray", "float64", <<>>, <<1>>),
             iterable(0, TRUE, EmptyArray), iterable(2, TRUE, EmptyArray),
             iterable(2, FALSE, ints), iterable(2, FALSE, floats),
             iterable(1, FALSE, ListOffsetArray(<<0, 2>>, floats))}

InitIndexing ==
    /\ pc = "call"
    /\ result = NoResult
    /\ \/ \E n \in 0..MaxItems : \E items \in [1..n -> SliceItems] :
             call = [op |-> "prepare_advanced_indexing", items |-> items]
       \/ \E n \in 1..2 : \E where \in [1..n -> WhereItems] :
             call = [op |-> "normalise_items", where |-> where,
                     backend |-> "cpu"]
       \/ \E backend, where_backend \in {"cpu", "jax", "typetracer"},
             offsets \in {<<0, 2>>, <<0, 1, 2>>},
             rest \in {<<>>, <<Plain("slice")>>} :
             call = [op |-> "normalise_items",
                     where |-> <<to_backend(
                                    ListOffsetArray(
                                        offsets, NumpyArray(<<1, 0>>, "int64")),
                                    where_backend)>> \o rest,
                     backend |-> backend]

PrepareAdvancedIndexing ==
    /\ pc = "call"
    /\ call.op = "prepare_advanced_indexing"
    /\ result' = prepare_advanced_indexing(call.items)
    /\ pc' = "return"
    /\ UNCHANGED call

\* the first steps of Content.__getitem__: the items are normalised, then
\* prepared
NormaliseItems ==
    /\ pc = "call"
    /\ call.op = "normalise_items"
    /\ result' = LET items == normalise_items(call.where, call.backend)
                  IN IF ~Ok(items) THEN items
                     ELSE prepare_advanced_indexing(items.value)
    /\ pc' = "return"
    /\ UNCHANGED call

SpecIndexing ==
    InitIndexing /\ [][PrepareAdvancedIndexing \/ NormaliseItems]_vars

(***************************************************************************)
(* Buffer codec: to_buffers (form, length, container) and reconstitute.   *)
(***************************************************************************)
\* form_cls of a node kind
FormKind(kind) ==
    CASE kind = "NumpyArray" -> "NumpyForm"
      [] kind = "EmptyArray" -> "EmptyForm"
      [] kind = "ListOffsetArray" -> "ListOffsetForm"
      [] kind = "ListArray" -> "ListForm"
      [] kind = "IndexedOptionArray" -> "IndexedOptionForm"
      [] kind = "RegularArray" -> "RegularForm"
      [] kind = "RecordArray" -> "RecordForm"

RECURSIVE FormOf(_, _)
\* the form of x, the key of a child being its parent's key and its position
FormOf(x, form_key) ==
    IF x.kind = "NumpyArray"
    THEN [kind |-> "NumpyForm", form_key |-> form_key,
          primitive |-> x.dtype, inner_shape |-> <<>>]
    ELSE IF x.kind = "EmptyArray"
    THEN [kind |-> "EmptyForm", form_key |-> form_key]
    ELSE IF x.kind = "RecordArray"
    THEN [kind |-> "RecordForm", form_key |-> form_key,
          is_tuple |-> x.is_tuple, fields |-> x.fields,
          contents |-> [i \in 1..Len(x.contents) |->
                          FormOf(x.contents[i], form_key \o ToString(i - 1))]]
    ELSE IF x.kind = "RegularArray"
    THEN [kind |-> "RegularForm", form_key |-> form_key, size |-> x.size,
          content |-> FormOf(x.content, form_key \o "0")]
    ELSE [kind |-> FormKind(x.kind), form_key |-> form_key,
          content |-> FormOf(x.content, form_key \o "0")]

\* buffer_key.format(form_key=form.form_key, attribute=attribute)
getkey(form, attribute) == form.form_key \o "-" \o attribute

\* RecordForm.content(field): the child form at the first position of the
\* name
RecordForm_content(form, field) ==
    form.contents[CHOOSE i \in 1..Len(form.fields) :
                     /\ form.fields[i] = field
                     /\ \A j \in 1..(i - 1) : form.fields[j] # field]

\* container[key] = buffer.  A buffer of a container is an array of the
\* backend (own) or an object holding raw bytes, with its elements as the
\* running system reads them
Write(container, key, buffer) ==
    (key :> [own |-> TRUE, data |-> buffer]) @@ container

RECURSIVE to_buffers_into(_, _, _)
RECURSIVE RecordArray_to_buffers(_, _, _, _)

\* the loop over the children from child i on: a tuple child is written
\* under the form at its position, a named child under form.content(field)
RecordArray_to_buffers(self, form, container, i) ==
    IF i > Len(self.contents) THEN Return(container)
    ELSE IF ~Ok(to_buffers_into(
                    self.contents[i],
                    IF self.is_tuple THEN form.contents[i]
                    ELSE RecordForm_content(form, self.fields[i]),
                    container))
    THEN to_buffers_into(
             self.contents[i],
             IF self.is_tuple THEN form.contents[i]
             ELSE RecordForm_content(form, self.fields[i]),
             container)
    ELSE RecordArray_to_buffers(
             self, form,
             to_buffers_into(
                 self.contents[i],
                 IF self.is_tuple THEN form.contents[i]
                 ELSE RecordForm_content(form, self.fields[i]),
                 container).value,
             i + 1)

\* content._to_buffers(form, getkey, container, backend, byteorder)
to_buffers_into(x, form, container) ==
    IF FormKind(x.kind) # form.kind THEN Raise("AssertionError")
    ELSE IF x.kind = "NumpyArray"
    THEN Return(Write(container, getkey(form, "data"), x.data))
    ELSE IF x.kind = "EmptyArray" THEN Return(container)
    ELSE IF x.kind = "RecordArray"
    THEN RecordArray_to_buffers(x, form, container, 1)
    ELSE IF x.kind = "ListOffsetArray"
    THEN to_buffers_into(x.content, form.content,
                         Write(container, getkey(form, "offsets"), x.offsets))
    ELSE IF x.kind = "ListArray"
    THEN to_buffers_into(
             x.content, form.content,
             Write(Write(container, getkey(form, "starts"), x.starts),
                   getkey(form, "stops"), x.stops))
    ELSE IF x.kind = "IndexedOptionArray"
    THEN to_buffers_into(x.content, form.content,
                         Write(container, getkey(form, "index"), x.index))
    ELSE to_buffers_into(x.content, form.content, container)

\* ak.to_buffers(x): the form, the length and the container
to_buffers(x) ==
    LET container == to_buffers_into(x, FormOf(x, "node"), [k \in {} |-> <<>>])
    IN IF ~Ok(container) THEN container
       ELSE Return([form |-> FormOf(x, "node"), length |-> x.length,
                    container |-> container.value])

\* ak._util.native_byteorder, from sys.byteorder of the running system
native_byteorder == IF call.sys_byteorder = "little" THEN "<" ELSE ">"

\* array.byteswap(inplace=False): the bytes of every element in the reverse
\* order.  An element of more than one byte is two bytes wide in the model,
\* in two's complement.
byteswap(array, itemsize) ==
    [k \in 1..Len(array) |->
        IF itemsize = 1 THEN array[k]
        ELSE LET swapped == ((array[k] % 65536) % 256) * 256
                                + ((array[k] % 65536) \div 256)
             IN IF swapped >= 32768 THEN swapped - 65536 ELSE swapped]

\* _from_buffer without the tests of the size, a buffer too small being
\* filled with zeros
from_buffer_padded(buffer, itemsize, count, byteorder) ==
    LET array == [k \in 1..count |->
                     IF k <= Len(buffer.data) THEN buffer.data[k] ELSE 0]
    IN IF buffer.own \/ byteorder = native_byteorder THEN Return(array)
       ELSE Return(byteswap(array, itemsize))

\* _from_buffer: numpy.frombuffer refuses a buffer smaller than count
from_buffer(buffer, itemsize, count, byteorder) ==
    IF buffer.own
    THEN IF Len(buffer.data) < count THEN Raise("TypeError")
         ELSE Return(SubSeq(buffer.data, 1, count))
    ELSE IF Len(buffer.data) < count THEN Raise("ValueError")
    ELSE IF byteorder # native_byteorder
    THEN Return(byteswap(SubSeq(buffer.data, 1, count), itemsize))
    ELSE Return(SubSeq(buffer.data, 1, count))

\* _from_buffer(nplike, container[getkey(form, attribute)], dtype, count,
\* byteorder), reconstitute handing the byteorder of the call to every node;
\* masks and tags are of one byte per element, as booleans are
ReadBuffer(container, form, attribute, count) ==
    IF getkey(form, attribute) \notin DOMAIN container THEN Raise("KeyError")
    ELSE from_buffer(container[getkey(form, attribute)],
                     IF \/ attribute \in {"mask", "tags"}
                        \/ (attribute = "data" /\ form.primitive = "bool")
                     THEN 1 ELSE 2,
                     count, call.byteorder)

\* index_nplike.max(x): numpy refuses an empty array
MaxOf(x) ==
    IF Len(x) = 0 THEN Raise("ValueError")
    ELSE Return(CHOOSE v \in {x[k] : k \in 1..Len(x)} :
                    \A k \in 1..Len(x) : x[k] <= v)

\* stops[starts != stops]
reduced_stops(starts, stops) ==
    Compress(stops, [k \in 1..Len(starts) |->
                        IF starts[k] # stops[k] THEN 1 ELSE 0], 1)

RECURSIVE Product(_)
Product(shape) ==
    IF Len(shape) = 0 THEN 1 ELSE shape[1] * Product(Tail(shape))

RECURSIVE reconstitute(_, _, _)
RECURSIVE ReconstituteAll(_, _, _, _, _)

\* [reconstitute(content, lengths[i], ...) for i, content in enumerate(forms)]
\* from position i on, after the nodes of contents
ReconstituteAll(forms, lengths, container, i, contents) ==
    IF i > Len(forms) THEN Return(contents)
    ELSE IF ~Ok(reconstitute(forms[i], lengths[i], container))
    THEN reconstitute(forms[i], lengths[i], container)
    ELSE ReconstituteAll(
             forms, lengths, container, i + 1,
             Append(contents, reconstitute(forms[i], lengths[i], container).value))

\* the branch of a form with one index buffer read with the given count:
\* IndexedOptionForm, IndexedForm, ListOffsetForm, ByteMaskedForm,
\* BitMaskedForm
ReconstituteIndexed(form, length, container) ==
    LET index == ReadBuffer(
                    container, form,
                    CASE form.kind = "ListOffsetForm" -> "offsets"
                      [] form.kind \in {"ByteMaskedForm", "BitMaskedForm"} -> "mask"
                      [] OTHER -> "index",
                    CASE form.kind = "ListOffsetForm" -> length + 1
                      [] form.kind = "BitMaskedForm" -> (length + 7) \div 8
                      [] OTHER -> length)
    IN IF ~Ok(index) THEN index
       ELSE IF form.kind = "IndexedOptionForm"
       THEN WithContent(
                IndexedOptionArray(index.value, EmptyArray),
                IF Len(index.value) = 0 THEN Return(0) ELSE MaxOf(index.value),
                reconstitute(
                    form.content,
                    IF Len(index.value) = 0 THEN 0
                    ELSE Max2(0, MaxOf(index.value).value + 1),
                    container))
       ELSE IF form.kind = "IndexedForm"
       THEN WithContent(
                [kind |-> "IndexedArray", backend |-> "cpu",
                 index |-> index.value, content |-> EmptyArray,
                 length |-> Len(index.value), parameters |-> ""],
                IF Len(index.value) = 0 THEN Return(0) ELSE MaxOf(index.value),
                reconstitute(
                    form.content,
                    IF Len(index.value) = 0 THEN 0
                    ELSE MaxOf(index.value).value + 1,
                    container))
       ELSE IF form.kind = "ListOffsetForm"
       THEN WithContent(
                ListOffsetArray(index.value, EmptyArray),
                Return(0),
                reconstitute(
                    form.content,
                    IF Len(index.value) = 1 THEN 0
                    ELSE index.value[Len(index.value)],
                    container))
       ELSE WithContent(
                [kind |-> IF form.kind = "ByteMaskedForm"
                          THEN "ByteMaskedArray" ELSE "BitMaskedArray",
                 backend |-> "cpu", mask |-> index.value,
                 content |-> EmptyArray, valid_when |-> form.valid_when,
                 lsb_order |-> form.kind = "BitMaskedForm" /\ form.lsb_order,
                 length |-> length, parameters |-> ""],
                Return(0),
                reconstitute(form.content, length, container))

\* the branch of ListForm
ReconstituteList(form, length, container) ==
    LET starts == ReadBuffer(container, form, "starts", length)
        stops == ReadBuffer(container, form, "stops", length)
    IN IF getkey(form, "starts") \notin DOMAIN container THEN Raise("KeyError")
       ELSE IF getkey(form, "stops") \notin DOMAIN container THEN Raise("KeyError")
       ELSE IF ~Ok(starts) THEN starts
       ELSE IF ~Ok(stops) THEN stops
       ELSE WithContent(
                ListArray(starts.value, stops.value, EmptyArray),
                IF Len(starts.value) = 0 THEN Return(0)
                ELSE MaxOf(reduced_stops(starts.value, stops.value)),
                reconstitute(
                    form.content,
                    IF Len(starts.value) = 0 THEN 0
                    ELSE MaxOf(reduced_stops(starts.value, stops.value)).value,
                    container))

\* the length of the content of a tag taken from the positions of every tag
UnionLength_untagged(tags, index, tag) ==
    IF Len(index) = 0 THEN 0 ELSE MaxOf(index).value + 1

\* index[tags == tag], and the length of the content of the tag
UnionLength(tags, index, tag) ==
    IF Len(Compress(index, [k \in 1..Len(tags) |->
                               IF tags[k] = tag THEN 1 ELSE 0], 1)) = 0
    THEN 0
    ELSE MaxOf(Compress(index, [k \in 1..Len(tags) |->
                                   IF tags[k] = tag THEN 1 ELSE 0], 1)).value + 1

\* the branch of UnionForm
ReconstituteUnion(form, length, container) ==
    LET tags == ReadBuffer(container, form, "tags", length)
        index == ReadBuffer(container, form, "index", length)
    IN IF getkey(form, "tags") \notin DOMAIN container THEN Raise("KeyError")
       ELSE IF getkey(form, "index") \notin DOMAIN container THEN Raise("KeyError")
       ELSE IF ~Ok(tags) THEN tags
       ELSE IF ~Ok(index) THEN index
       ELSE LET contents ==
                    ReconstituteAll(
                        form.contents,
                        [t \in 1..Len(form.contents) |->
                            UnionLength(tags.value, index.value, t - 1)],
                        container, 1, <<>>)
            IN IF ~Ok(contents) THEN contents
               ELSE Return([kind |-> "UnionArray", backend |-> "cpu",
                            tags |-> tags.value, index |-> index.value,
                            contents |-> contents.value,
                            length |-> Len(tags.value), parameters |-> ""])

\* the branch of RecordForm
ReconstituteRecord(form, length, container) ==
    LET contents == ReconstituteAll(
                        form.contents,
                        [i \in 1..Len(form.contents) |-> length],
                        container, 1, <<>>)
    IN IF ~Ok(contents) THEN contents
       ELSE RecordArray_init(
                contents.value,
                IF form.is_tuple THEN FieldsNone ELSE FieldsList(form.fields),
                length, "", "cpu")

\* the branch of NumpyForm
ReconstituteNumpy(form, length, container) ==
    LET data == ReadBuffer(container, form, "data",
                           length * Product(form.inner_shape))
    IN IF ~Ok(data) THEN data
       ELSE Return([NumpyArray(data.value, form.primitive) EXCEPT
                       !.length = IF form.inner_shape = <<>> THEN Len(data.value)
                                  ELSE IF Len(data.value) = 0 THEN length
                                  ELSE Len(data.value)
                                          \div Product(form.inner_shape)])

reconstitute(form, length, container) ==
    IF form.kind = "EmptyForm"
    THEN IF length # 0 THEN Raise("ValueError") ELSE Return(EmptyArray)
    ELSE IF form.kind = "NumpyForm"
    THEN ReconstituteNumpy(form, length, container)
    ELSE IF form.kind = "UnmaskedForm"
    THEN WithContent(
             [kind |-> "UnmaskedArray", backend |-> "cpu",
              content |-> EmptyArray, length |-> length, parameters |-> ""],
             Return(0),
             reconstitute(form.content, length, container))
    ELSE IF form.kind \in {"BitMaskedForm", "ByteMaskedForm",
                           "IndexedOptionForm", "IndexedForm", "ListOffsetForm"}
    THEN ReconstituteIndexed(form, length, container)
    ELSE IF form.kind = "ListForm"
    THEN ReconstituteList(form, length, container)
    ELSE IF form.kind = "RegularForm"
    THEN WithContent(RegularArray(EmptyArray, form.size, length), Return(0),
                     reconstitute(form.content, length * form.size, container))
    ELSE IF form.kind = "RecordForm"
    THEN ReconstituteRecord(form, length, container)
    ELSE IF form.kind = "UnionForm"
    THEN ReconstituteUnion(form, length, container)
    ELSE Raise("AssertionError")

(***************************************************************************)
(* Inputs of the codec: a tree is built from a leaf by wrapping it level   *)
(* by level, and is decomposed and reconstituted at any level.             *)
(***************************************************************************)
MaxNode == 1        \* longest node of a tree
Levels == 3         \* levels of nesting over the leaf

\* a leaf of length n whose values are told apart
Leaf(n, base) == NumpyArray([k \in 1..n |-> base + k], "int64")

\* a round trip with the default byteorder on a little-endian system
CodecCall(x, depth) ==
    [op |-> "to_buffers", x |-> x, depth |-> depth, byteorder |-> "<",
     sys_byteorder |-> "little"]

MaxBuffer == 2      \* longest buffer a node of length MaxBuffer - 1 reads

\* a form of every kind, over leaves
Forms ==
    LET leaf(key) == [kind |-> "NumpyForm", form_key |-> key,
                      primitive |-> "int64", inner_shape |-> <<>>]
        over(kind) == [kind |-> kind, form_key |-> "node",
                       content |-> leaf("node0")]
    IN {leaf("node"), [leaf("node") EXCEPT !.inner_shape = <<2>>],
        [leaf("node") EXCEPT !.primitive = "bool"],
        [kind |-> "EmptyForm", form_key |-> "node"],
        over("UnmaskedForm"), over("IndexedOptionForm"), over("IndexedForm"),
        over("ListOffsetForm"), over("ListForm"),
        [kind |-> "BitMaskedForm", form_key |-> "node",
         content |-> leaf("node0"), valid_when |-> TRUE, lsb_order |-> TRUE],
        [kind |-> "ByteMaskedForm", form_key |-> "node",
         content |-> leaf("node0"), valid_when |-> TRUE],
        [kind |-> "RegularForm", form_key |-> "node", size |-> 2,
         content |-> leaf("node0")],
        [kind |-> "RecordForm", form_key |-> "node", is_tuple |-> TRUE,
         fields |-> <<>>, contents |-> <<leaf("node0")>>],
        [kind |-> "UnionForm", form_key |-> "node",
         contents |-> <<leaf("node0"), leaf("node1")>>]}

\* the attributes of the buffers reconstitute reads for the node of a form
Attributes(form) ==
    CASE form.kind = "NumpyForm" -> <<"data">>
      [] form.kind \in {"BitMaskedForm", "ByteMaskedForm"} -> <<"mask">>
      [] form.kind \in {"IndexedOptionForm", "IndexedForm"} -> <<"index">>
      [] form.kind = "ListOffsetForm" -> <<"offsets">>
      [] form.kind = "ListForm" -> <<"starts", "stops">>
      [] form.kind = "UnionForm" -> <<"tags", "index">>
      [] OTHER -> <<>>

InitCodec ==
    /\ pc = "build"
    /\ result = NoResult
    /\ \/ \E n \in 0..MaxNode : call = CodecCall(Leaf(n, 0), 0)
       \/ call = CodecCall(EmptyArray, 0)

\* the records over the tree x: x alone or before a leaf, as a tuple or
\* under field names, with the length given or left out
RecordsOver(x) ==
    {r.value :
        r \in {q \in {RecordArray_init(contents, fields, length, "", "cpu") :
                         contents \in {<<x>>, <<x, Leaf(x.length, 10)>>},
                         fields \in {FieldsNone, FieldsList(<<"x">>),
                                     FieldsList(<<"x", "0">>),
                                     FieldsList(<<"x", "x">>)},
                         length \in {None_} \cup (0..x.length)} :
                  Ok(q)}}

\* one more level over the tree
Wrap ==
    /\ pc = "build"
    /\ call.depth < Levels
    /\ \E n \in 0..MaxNode :
          \/ \E offsets \in [1..(n + 1) -> 0..call.x.length] :
                /\ NonDecreasing(offsets)
                /\ call' = CodecCall(ListOffsetArray(offsets, call.x),
                                     call.depth + 1)
          \/ \E starts, stops \in [1..n -> 0..call.x.length] :
                /\ \A k \in 1..n : starts[k] <= stops[k]
                /\ call' = CodecCall(ListArray(starts, stops, call.x),
                                     call.depth + 1)
          \/ \E index \in [1..n -> -1..(call.x.length - 1)] :
                call' = CodecCall(IndexedOptionArray(index, call.x),
                                  call.depth + 1)
          \/ \E size \in 0..MaxNode :
                /\ n * size <= call.x.length
                /\ call' = CodecCall(RegularArray(call.x, size, n),
                                     call.depth + 1)
          \/ /\ n = 0
             /\ \E r \in RecordsOver(call.x) :
                   call' = CodecCall(r, call.depth + 1)
    /\ UNCHANGED <<pc, result>>

ToBuffers ==
    /\ pc = "build"
    /\ call.op = "to_buffers"
    /\ result' = to_buffers(call.x)
    /\ pc' = "decomposed"
    /\ UNCHANGED call

FromBuffers ==
    /\ pc = "decomposed"
    /\ Ok(result)
    /\ result' = reconstitute(result.value.form, result.value.length,
                              result.value.container)
    /\ pc' = "return"
    /\ UNCHANGED call

SpecCodec == InitCodec /\ [][Wrap \/ ToBuffers \/ FromBuffers]_vars

(***************************************************************************)
(* from_buffers on a form, a length and a container whose buffers are      *)
(* shorter than the form and the length require, as long or longer.        *)
(***************************************************************************)
\* a call of from_buffers: the buffers of the node are a, and b holding
\* ones; the leaves hold 1, 2, ... up to leaf.  Or the buffers of a node with
\* an index are as long as the length requires and hold any positions of
\* leaves long enough, in the byte order of the system.
InitFromBuffers ==
    /\ pc = "call"
    /\ result = NoResult
    /\ \/ \E form \in {f \in Forms :
                         f.kind \in {"IndexedOptionForm", "IndexedForm",
                                     "ListOffsetForm", "ListForm", "UnionForm"}},
             length \in 0..MaxBuffer :
             \E a \in [1..(IF form.kind = "ListOffsetForm" THEN length + 1
                            ELSE length)
                          -> (IF form.kind = "IndexedOptionForm" THEN -2 ELSE 0)
                             ..(IF form.kind = "UnionForm" THEN 1 ELSE MaxBuffer)],
                b \in [1..(IF form.kind \in {"ListForm", "UnionForm"}
                            THEN length ELSE 0) -> 0..MaxBuffer] :
                /\ form.kind = "ListOffsetForm" => NonDecreasing(a)
                /\ form.kind = "ListForm" => \A k \in 1..length : a[k] <= b[k]
                /\ call =
                      [op |-> "from_buffers", form |-> form, length |-> length,
                       byteorder |-> "<", sys_byteorder |-> "little",
                       container |->
                          [key \in {getkey(form, Attributes(form)[i]) :
                                       i \in 1..Len(Attributes(form))}
                                   \cup {"node0-data", "node1-data"} |->
                              [own |-> FALSE,
                               data |-> IF key = getkey(form, Attributes(form)[1])
                                        THEN a
                                        ELSE IF Len(Attributes(form)) = 2
                                                /\ key = getkey(form,
                                                                Attributes(form)[2])
                                        THEN b
                                        ELSE [k \in 1..(MaxBuffer + 1) |-> k]]]]
       \/ \E form \in Forms, length \in (0..(MaxBuffer - 1)) \cup {9},
             n, b \in 0..MaxBuffer, leaf \in (0..MaxBuffer) \cup {9},
             own \in BOOLEAN, byteorder \in {"<", ">"},
             sys_byteorder \in {"little", "big"} :
             \E a \in [1..n -> {0, 1}] :
                call =
                   [op |-> "from_buffers", form |-> form, length |-> length,
                    byteorder |-> byteorder, sys_byteorder |-> sys_byteorder,
                    container |->
                       [key \in {getkey(form, Attributes(form)[i]) :
                                    i \in 1..Len(Attributes(form))}
                                \cup (IF form.kind = "NumpyForm" THEN {}
                                      ELSE {"node0-data", "node1-data"}) |->
                           [own |-> own,
                            data |-> IF Len(Attributes(form)) >= 1
                                        /\ key = getkey(form, Attributes(form)[1])
                                     THEN a
                                     ELSE IF Len(Attributes(form)) = 2
                                             /\ key = getkey(form,
                                                             Attributes(form)[2])
                                     THEN [k \in 1..b |-> 1]
                                     ELSE [k \in 1..leaf |-> k]]]]

\* ak.from_buffers(form, length, container, byteorder=byteorder)
Reconstitute ==
    /\ pc = "call"
    /\ call.op = "from_buffers"
    /\ result' = reconstitute(call.form, call.length, call.container)
    /\ pc' = "return"
    /\ UNCHANGED call

SpecFromBuffers == InitFromBuffers /\ [][Reconstitute]_vars

(***************************************************************************)
(* The slicer over a list of leaves: x[a], then [b], and x[a, b].           *)
(* An index item is an integer [kind |-> "int", value |-> i] or a range     *)
(* [kind |-> "slice", start |-> , stop |-> , step |-> ] with None_ for None.*)
(***************************************************************************)
MaxSlice == 3       \* length of the leaf under the list; one more than its lists

\* (start, stop, step) of a range for a layout of the given length
regularise_slice(slice, length) ==
    IF length = None_
    THEN <<None_, None_, slice.step>>
    ELSE IF length = unknown_length
    THEN <<unknown_length, unknown_length,
           IF slice.step = None_ THEN 1 ELSE slice.step>>
    ELSE LET start == IF slice.start = None_ THEN 0 ELSE slice.start
             stop == IF slice.stop = None_ THEN length ELSE slice.stop
         IN <<Min2(Max2(IF start < 0 THEN start + length ELSE start, 0), length),
              Min2(Max2(IF stop < 0 THEN stop + length ELSE stop, 0), length),
              IF slice.step = None_ THEN 1 ELSE slice.step>>

headtail(oldtail) ==
    IF Len(oldtail) = 0 THEN <<<<>>, <<>>>>
    ELSE <<oldtail[1], SubSeq(oldtail, 2, Len(oldtail))>>

\* x[where] for an integer: a list of the ListOffsetArray, as a leaf, or an
\* element of a leaf
getitem_at(x, where) ==
    LET i == IF where < 0 THEN where + x.length ELSE where
    IN IF ~(0 <= i /\ i < x.length) THEN Raise("IndexError")
       ELSE IF x.kind = "NumpyArray"
       THEN Return([kind |-> "scalar", value |-> x.data[i + 1]])
       ELSE Return(NumpyArray(Slice(x.content.data, x.offsets[i + 1],
                                    x.offsets[i + 2]), x.content.dtype))

\* x[start:stop] for a unit-step range: the bounds are narrowed, the leaf
\* under a list is shared
getitem_slice(x, slice) ==
    LET r == regularise_slice(slice, x.length)
    IN IF x.kind = "NumpyArray"
       THEN NumpyArray(Slice(x.data, r[1], r[2]), x.dtype)
       ELSE ListOffsetArray(
                IF Len(Slice(x.offsets, r[1], r[2] + 1)) = 0 THEN <<0>>
                ELSE Slice(x.offsets, r[1], r[2] + 1),
                x.content)

\* getitem_next applying the head only
getitem_next_headonly(x, where) ==
    IF Len(where) = 0 THEN Return(x)
    ELSE IF where[1].kind = "int" THEN getitem_at(x, where[1].value)
    ELSE Return(getitem_slice(x, where[1]))

RECURSIVE getitem_next(_, _)
\* x[where] for a tuple of items: the head acts on x, the tail on what the
\* head selects (on each list of a range, the results being gathered into a
\* leaf of elements or a list of leaves)
getitem_next(x, where) ==
    LET head == headtail(where)[1]
        tail == headtail(where)[2]
        Gathered(results) ==
            IF \E i \in 1..Len(results) : ~Ok(results[i])
            THEN FirstFailure(results)
            ELSE IF \A i \in 1..Len(results) : results[i].value.kind = "scalar"
            THEN Return(NumpyArray([i \in 1..Len(results) |->
                                       results[i].value.value], "int64"))
            ELSE Return(ListOffsetArray(
                            <<0>> \o Cumsum([i \in 1..Len(results) |->
                                                results[i].value.length]),
                            NumpyArray(ConcatData([i \in 1..Len(results) |->
                                                      results[i].value]),
                                       "int64")))
    IN IF Len(where) = 0 THEN Return(x)
       ELSE IF x.kind = "scalar" THEN Raise("IndexError")
       ELSE IF head.kind = "int"
       THEN IF ~Ok(getitem_at(x, head.value)) THEN getitem_at(x, head.value)
            ELSE getitem_next(getitem_at(x, head.value).value, tail)
       ELSE IF Len(tail) = 0 THEN Return(getitem_slice(x, head))
       ELSE IF x.kind = "NumpyArray" THEN Raise("IndexError")
       ELSE Gathered([i \in 1..getitem_slice(x, head).length |->
                         getitem_next(getitem_at(getitem_slice(x, head),
                                                 i - 1).value, tail)])

\* a list of at most MaxSlice - 1 sublists over a leaf of distinct values, and
\* two items, each an integer or a unit-step range
InitSlicer ==
    LET SimpleItems ==
            {[kind |-> "int", value |-> i] : i \in (-MaxSlice)..(MaxSlice - 1)}
            \cup {[kind |-> "slice", start |-> a, stop |-> b, step |-> None_] :
                     a \in {None_, -1, 0, 1}, b \in {None_, -1, 1, 2}}
            \cup {[kind |-> "slice", start |-> 0, stop |-> 2, step |-> 1]}
    IN /\ pc = "call"
       /\ \E offsets \in OffsetsUpTo(MaxSlice, MaxSlice - 1),
             a \in SimpleItems, b \in SimpleItems :
             call = [op |-> "__getitem__",
                     x |-> ListOffsetArray(
                               offsets,
                               NumpyArray([k \in 1..MaxSlice |-> 10 + k],
                                          "int64")),
                     a |-> a, b |-> b]
       /\ result = NoResult

\* x[a]
GetitemFirst ==
    /\ pc = "call"
    /\ result' = getitem_next(call.x, <<call.a>>)
    /\ pc' = "first"
    /\ UNCHANGED call

\* x[a][b], when x[a] has not failed
GetitemSecond ==
    /\ pc = "first"
    /\ Ok(result)
    /\ result' = getitem_next(result.value, <<call.b>>)
    /\ pc' = "return"
    /\ UNCHANGED call

\* x[a, b]
GetitemTuple ==
    /\ pc = "call"
    /\ result' = getitem_next(call.x, <<call.a, call.b>>)
    /\ pc' = "combined"
    /\ UNCHANGED call

SpecSlicer == InitSlicer /\ [][GetitemFirst \/ GetitemSecond \/ GetitemTuple]_vars

(***************************************************************************)
(* Claims about the record operations.                                     *)
(***************************************************************************)
Returned(opname) == pc = "return" /\ call.op = opname

KnownLengths(contents) ==
    \A i \in 1..Len(contents) : contents[i].length # unknown_length

MinOfLengths(contents) ==
    CHOOSE m \in {contents[i].length : i \in 1..Len(contents)} :
        \A i \in 1..Len(contents) : m <= contents[i].length

\* C2: for a Record of known length L >= 0 (L = 0 included), index-at-position
\* with i < -L or i >= L raises IndexBounds (an IndexError) and returns no
\* record.
C2_OutOfBoundsRaises ==
    (/\ Returned("_getitem_at")
     /\ call.self.length # unknown_length
     /\ (call.where < -call.self.length \/ call.where >= call.self.length))
    => result.raised = "IndexError"

C2_Witness ==
    /\ Returned("_getitem_at")
    /\ call.self.length = 0
    /\ call.where = 0
    /\ result.raised = "IndexError"

\* C3: a Record of at least one child built without an explicit length, all
\* child lengths known, has the minimum of the child lengths as its length;
\* an explicit length above a known child length is rejected; and no
\* constructed Record of known length has a shorter child of known length.
C3_LengthIsMinimum ==
    Returned("RecordArray") =>
        /\ (/\ call.length = None_
            /\ Len(call.contents) > 0
            /\ KnownLengths(call.contents))
           => (/\ Ok(result)
               /\ result.value.length = MinOfLengths(call.contents))
        /\ (/\ call.length >= 0
            /\ \E i \in 1..Len(call.contents) :
                  /\ call.contents[i].length # unknown_length
                  /\ call.contents[i].length < call.length)
           => ~Ok(result)
        /\ (Ok(result) /\ result.value.length # unknown_length)
           => \A i \in 1..Len(result.value.contents) :
                 \/ result.value.contents[i].length = unknown_length
                 \/ result.value.contents[i].length >= result.value.length

C3_Witness ==
    /\ Returned("RecordArray")
    /\ call.length = None_
    /\ Len(call.contents) = 2
    /\ call.contents[1].length = 2
    /\ call.contents[2].length = 1
    /\ Ok(result)
    /\ result.value.length = 1

\* C4: a Record of zero children built without an explicit length fails at
\* construction; with an explicit length L >= 0 it is built with length L.
C4_ZeroChildren ==
    (Returned("RecordArray") /\ Len(call.contents) = 0) =>
        /\ call.length = None_ => result.raised = "TypeError"
        /\ call.length >= 0 =>
              (/\ Ok(result)
               /\ result.value.length = call.length
               /\ result.value.contents = <<>>)

C4_Witness ==
    /\ Returned("RecordArray")
    /\ Len(call.contents) = 0
    /\ call.length = None_
    /\ result.raised = "TypeError"

(***************************************************************************)
(* Claims about the merge.                                                 *)
(***************************************************************************)
PairwiseMergeable(contents, others, mergebool) ==
    /\ Len(contents) = Len(others)
    /\ \A i \in 1..Len(contents) : mergeable_next(contents[i], others[i], mergebool)

\* C5: merging two tuple Records of equal arity (children pairwise
\* mergeable) succeeds and returns one Record; merging a tuple Record with a
\* named Record of the same arity fails, in either operand order.
C5_TupleMerge ==
    (/\ Returned("_mergemany")
     /\ Len(call.others) = 1
     /\ call.others[1].kind = "RecordArray"
     /\ Len(call.others[1].contents) = Len(call.self.contents))
    => /\ (/\ call.self.is_tuple
           /\ call.others[1].is_tuple
           /\ PairwiseMergeable(call.self.contents, call.others[1].contents, FALSE))
          => (Ok(result) /\ result.value.kind = "RecordArray")
       /\ (call.self.is_tuple # call.others[1].is_tuple) => ~Ok(result)

\* C6 as stated: two Records of equal type parameters are reported mergeable
\* exactly when both are tuples of the same number of children with every
\* positional pair mergeable, or both are named with equal sets of field
\* names and every pair of same-named children mergeable.
C6_MergeableAllPairs ==
    (/\ Returned("_mergeable_next")
     /\ call.other.kind = "RecordArray"
     /\ call.self.parameters = call.other.parameters)
    => (result.value <=>
          \/ /\ call.self.is_tuple
             /\ call.other.is_tuple
             /\ PairwiseMergeable(call.self.contents, call.other.contents,
                                  call.mergebool)
          \/ /\ ~call.self.is_tuple
             /\ ~call.other.is_tuple
             /\ SetOf(call.self.fields) = SetOf(call.other.fields)
             /\ \A i \in 1..Len(call.self.fields), j \in 1..Len(call.other.fields) :
                   call.self.fields[i] = call.other.fields[j]
                   => mergeable_next(call.self.contents[i],
                                     call.other.contents[j], call.mergebool))

\* C6 as amended: ... or both are named with equal sets of field names
\* (regardless of order) and every child of the first Record is mergeable
\* with the first child of that name in the second Record; tuple versus
\* named is never mergeable.
C6_MergeableFirstMatch ==
    (/\ Returned("_mergeable_next")
     /\ call.other.kind = "RecordArray"
     /\ call.self.parameters = call.other.parameters)
    => (result.value <=>
          \/ /\ call.self.is_tuple
             /\ call.other.is_tuple
             /\ PairwiseMergeable(call.self.contents, call.other.contents,
                                  call.mergebool)
          \/ /\ ~call.self.is_tuple
             /\ ~call.other.is_tuple
             /\ SetOf(call.self.fields) = SetOf(call.other.fields)
             /\ \A i \in 1..Len(call.self.fields), j \in 1..Len(call.other.fields) :
                   (/\ call.self.fields[i] = call.other.fields[j]
                    /\ \A k \in 1..(j - 1) :
                          call.other.fields[k] # call.other.fields[j])
                   => mergeable_next(call.self.contents[i],
                                     call.other.contents[j], call.mergebool))

C6_Witness ==
    /\ Returned("_mergeable_next")
    /\ call.other.kind = "RecordArray"
    /\ ~call.self.is_tuple
    /\ call.self.fields = <<"x", "0">>
    /\ call.other.fields = <<"0", "x">>
    /\ call.self.contents[1].dtype = "bool"
    /\ result.value = TRUE

(***************************************************************************)
(* Claims about the boolean normalisation.                                 *)
(***************************************************************************)
\* a mask of known values: a ListOffsetArray over a boolean leaf
IsListOffsetBoolCall ==
    /\ call.op = "_normalise_item_bool_to_int"
    /\ call.item.kind = "ListOffsetArray"
    /\ IsBoolLeaf(call.item.content)
    /\ known_data(call.item.backend)

IsListOffsetOptionBoolCall ==
    /\ call.op = "_normalise_item_bool_to_int"
    /\ call.item.kind = "ListOffsetArray"
    /\ call.item.content.kind = "IndexedOptionArray"
    /\ IsBoolLeaf(call.item.content.content)
    /\ known_data(call.item.backend)

NotDropped(x) == x # -2

\* what sublist k of a mask selects: the local position of a true element,
\* -1 for a missing element, nothing for a false element
SelectedBy(item, k) ==
    LET start == item.offsets[k]
        leaf == IF item.content.kind = "IndexedOptionArray"
                THEN item.content.content.data ELSE item.content.data
        marks == [j \in 1..(item.offsets[k + 1] - start) |->
                    IF item.content.kind = "IndexedOptionArray"
                    THEN IF item.content.index[start + j] < 0 THEN -1
                         ELSE IF leaf[item.content.index[start + j] + 1] = 1
                              THEN j - 1 ELSE -2
                    ELSE IF leaf[start + j] = 1 THEN j - 1 ELSE -2]
    IN SelectSeq(marks, NotDropped)

\* sublist k of a normalised index, -1 standing for a missing entry
SublistOf(out, k) ==
    [q \in 1..(out.offsets[k + 1] - out.offsets[k]) |->
        IF out.content.kind = "IndexedOptionArray"
        THEN IF out.content.index[out.offsets[k] + q] < 0 THEN -1
             ELSE out.content.content.data[out.content.index[out.offsets[k] + q] + 1]
        ELSE out.content.data[out.offsets[k] + q]]

\* the number of true values between the first offset and offset k
TrueCountBefore(item, k) ==
    Cardinality({p \in (item.offsets[1] + 1)..item.offsets[k] :
                    item.content.data[p] = 1})

C8_OptionBooleanMask ==
    (pc = "return" /\ IsListOffsetOptionBoolCall) =>
        /\ Ok(result)
        /\ result.value.kind = "ListOffsetArray"
        /\ result.value.content.kind = "IndexedOptionArray"
        /\ result.value.content.content.kind = "NumpyArray"
        /\ result.value.content.content.dtype = "int64"
        /\ Len(result.value.offsets) = Len(call.item.offsets)
        /\ Len(result.value.content.index)
              = result.value.offsets[Len(result.value.offsets)]
        /\ Cardinality({q \in 1..Len(result.value.content.index) :
                           result.value.content.index[q] >= 0})
              = result.value.content.content.length
        /\ \A k \in 1..(Len(call.item.offsets) - 1) :
              SublistOf(result.value, k) = SelectedBy(call.item, k)

(***************************************************************************)
(* Claims about the index preparation.                                     *)
(***************************************************************************)
IsStructured(item) == item.kind \in {"ListOffsetArray", "IndexedOptionArray"}
IsFlatOrInteger(item) == item.kind \in {"array", "int"}

StructuredCount ==
    Cardinality({i \in 1..Len(call.items) : IsStructured(call.items[i])})

\* C9: an index expression is rejected as mixing the two indexing modes
\* exactly when it holds more than one structured Content, or one beside a
\* flat array or an integer; slices, field names, lists of field names,
\* np.newaxis and Ellipsis never count, and without a structured Content
\* there is no such rejection.
C9_MixedRejection ==
    (pc = "return" /\ call.op = "prepare_advanced_indexing") =>
        /\ (result = Raise(MixedError))
              <=> \/ StructuredCount > 1
                  \/ /\ StructuredCount = 1
                     /\ \E i \in 1..Len(call.items) :
                           IsFlatOrInteger(call.items[i])
        /\ StructuredCount = 0 => result # Raise(MixedError)

C9_Witness ==
    /\ pc = "return"
    /\ call.op = "prepare_advanced_indexing"
    /\ StructuredCount = 1
    /\ \E i \in 1..Len(call.items) : call.items[i].kind = "int"
    /\ \E i \in 1..Len(call.items) : call.items[i].kind = "slice"
    /\ result = Raise(MixedError)

HasArray == \E i \in 1..Len(call.items) : call.items[i].kind = "array"

\* an item that is an array index once prepared
ArrayLike(item) == item.kind = "array" \/ (item.kind = "int" /\ HasArray)

SeparatedPattern ==
    \E i, j, k \in 1..Len(call.items) :
        /\ i < j /\ j < k
        /\ ArrayLike(call.items[i])
        /\ call.items[j].kind \in {"newaxis", "Ellipsis", "slice"}
        /\ ArrayLike(call.items[k])

\* C10: an expression that passes the earlier stages is rejected by the
\* trailing state machine exactly when it holds an array index, later a
\* separator (np.newaxis, Ellipsis or a slice) and later another array
\* index, an integer being an array index only beside an array.
C10_TrailingStateMachine ==
    (pc = "return" /\ call.op = "prepare_advanced_indexing") =>
        /\ result = Raise(SeparatedError) => SeparatedPattern
        /\ (SeparatedPattern /\ result.raised \notin
                {MixedError, BroadcastError, "TypeError"})
              => result = Raise(SeparatedError)

C10_Witness ==
    /\ pc = "return"
    /\ call.op = "prepare_advanced_indexing"
    /\ Len(call.items) = 3
    /\ call.items[1].kind = "int"
    /\ call.items[2].kind = "slice"
    /\ call.items[3].kind = "array"
    /\ result = Raise(SeparatedError)

(***************************************************************************)
(* Claims about the buffer codec.                                          *)
(***************************************************************************)
RECURSIVE ToList(_)
\* the nested value of a tree: per element its leaf value, its list, its
\* fields, or that it is missing
ToList(x) ==
    IF x.kind = "NumpyArray"
    THEN [i \in 1..x.length |-> [value |-> x.data[i]]]
    ELSE IF x.kind = "EmptyArray" THEN <<>>
    ELSE IF x.kind = "ListOffsetArray"
    THEN [i \in 1..x.length |->
            [list |-> SubSeq(ToList(x.content), x.offsets[i] + 1, x.offsets[i + 1])]]
    ELSE IF x.kind = "ListArray"
    THEN [i \in 1..x.length |->
            [list |-> SubSeq(ToList(x.content), x.starts[i] + 1, x.stops[i])]]
    ELSE IF x.kind = "RegularArray"
    THEN [i \in 1..x.length |->
            [list |-> SubSeq(ToList(x.content), (i - 1) * x.size + 1, i * x.size)]]
    ELSE IF x.kind = "IndexedOptionArray"
    THEN [i \in 1..x.length |->
            IF x.index[i] < 0 THEN [missing |-> TRUE]
            ELSE ToList(x.content)[x.index[i] + 1]]
    ELSE [i \in 1..x.length |->
            [is_tuple |-> x.is_tuple, fields |-> x.fields,
             contents |-> [j \in 1..Len(x.contents) |-> ToList(x.contents[j])[i]]]]

\* C1: decomposing a tree and reconstituting the form, the length and the
\* container succeeds and gives a tree of the same nested value.
C1_RoundTrip ==
    (call.op = "to_buffers" /\ pc \in {"decomposed", "return"}) =>
        /\ Ok(result)
        /\ pc = "return" => ToList(result.value) = ToList(call.x)

(***************************************************************************)
(* Claims about normalise_item.                                            *)
(***************************************************************************)
RECURSIVE IntegerOrBooleanArray(_)
\* a layout of integers or booleans, possibly ragged or with missing values
IntegerOrBooleanArray(layout) ==
    IF layout.kind = "EmptyArray" THEN TRUE
    ELSE IF layout.kind = "NumpyArray"
    THEN layout.dtype \in {"int64", "int32", "bool"}
    ELSE IF layout.kind \in {"RecordArray", "UnionArray"} THEN FALSE
    ELSE IntegerOrBooleanArray(layout.content)

\* an integer, range, string, list of strings, ellipsis, null-axis marker
\* or integer/boolean array
ValidIndexItem(item) ==
    IF item.kind \in {"int", "slice", "str", "newaxis", "Ellipsis"} THEN TRUE
    ELSE IF item.kind = "object" THEN FALSE
    ELSE IF item.kind = "ndarray"
    THEN Len(item.shape) > 0 /\ item.dtype \in {"int64", "int32", "bool"}
    ELSE IF item.kind = "iterable"
    THEN item.len = 0 \/ item.all_str \/ IntegerOrBooleanArray(item.layout)
    ELSE IF item.kind = "Array" THEN IntegerOrBooleanArray(item.layout)
    ELSE IntegerOrBooleanArray(item)

\* C11: an index expression of one item that is not an integer, range,
\* string, list of strings, ellipsis, null-axis marker or integer/boolean
\* array fails with a TypeError
C11_InvalidItemTypeError ==
    (/\ pc = "return"
     /\ call.op = "normalise_items"
     /\ Len(call.where) = 1
     /\ ~ValidIndexItem(call.where[1]))
        => result.raised = "TypeError"

\* the part of C11 that holds: no such item yields a slice item
C11_InvalidItemFails ==
    (/\ pc = "return"
     /\ call.op = "normalise_items"
     /\ Len(call.where) = 1
     /\ ~ValidIndexItem(call.where[1]))
        => ~Ok(result)

(***************************************************************************)
(* Claims about from_buffers.                                              *)
(***************************************************************************)
\* the buffer the container holds for the attribute of the node of the call
GivenBuffer(attribute) == call.container[getkey(call.form, attribute)]

\* C12: the values of a leaf are those of its buffer with the bytes swapped
\* if and only if byteorder is not the byte order of the running system,
\* whether the buffer is raw bytes or an array of the backend
C12_SwappedIffNotNative ==
    (/\ Returned("from_buffers")
     /\ call.form.kind = "NumpyForm"
     /\ Ok(result))
        => result.value.data =
              IF call.byteorder # native_byteorder
              THEN byteswap(SubSeq(GivenBuffer("data").data, 1,
                                   Len(result.value.data)),
                            IF call.form.primitive = "bool" THEN 1 ELSE 2)
              ELSE SubSeq(GivenBuffer("data").data, 1, Len(result.value.data))

\* the same for raw bytes only
C12_RawBytesSwapped ==
    (/\ Returned("from_buffers")
     /\ call.form.kind = "NumpyForm"
     /\ ~GivenBuffer("data").own)
        => C12_SwappedIffNotNative

\* the number of elements the form and the length require of a buffer
RequiredCount(attribute) ==
    IF attribute = "data"
    THEN call.length * Product(call.form.inner_shape)
    ELSE IF attribute = "offsets" THEN call.length + 1
    ELSE IF call.form.kind = "BitMaskedForm" THEN (call.length + 7) \div 8
    ELSE call.length

\* the buffer of the returned node for the attribute
ReturnedBuffer(attribute) ==
    CASE attribute = "data" -> result.value.data
      [] attribute = "mask" -> result.value.mask
      [] attribute = "index" -> result.value.index
      [] attribute = "offsets" -> result.value.offsets
      [] attribute = "starts" -> result.value.starts
      [] attribute = "stops" -> result.value.stops
      [] attribute = "tags" -> result.value.tags

SomeBufferShort ==
    \E i \in 1..Len(Attributes(call.form)) :
        Len(GivenBuffer(Attributes(call.form)[i]).data)
            < RequiredCount(Attributes(call.form)[i])

\* C13: reconstitute fails, with the error of a buffer too small, when a
\* buffer of the node holds fewer elements than the form and the length
\* require, and a node it returns holds exactly the required number of
\* elements of every buffer
C13_BufferSizes ==
    Returned("from_buffers") =>
        /\ SomeBufferShort => result.raised \in {"TypeError", "ValueError"}
        /\ Ok(result) =>
              \A i \in 1..Len(Attributes(call.form)) :
                 Len(ReturnedBuffer(Attributes(call.form)[i]))
                    = RequiredCount(Attributes(call.form)[i])

\* a bit mask of one byte was given for nine elements, and refused
C13_Witness ==
    /\ Returned("from_buffers")
    /\ call.form.kind = "BitMaskedForm"
    /\ call.length = 9
    /\ Len(GivenBuffer("mask").data) = 1
    /\ SomeBufferShort
    /\ ~Ok(result)

\* a node was returned from a buffer longer than required
C13_LongerBufferCut ==
    /\ Returned("from_buffers")
    /\ Ok(result)
    /\ call.form.kind = "ListOffsetForm"
    /\ Len(GivenBuffer("offsets").data) > Len(result.value.offsets)

(***************************************************************************)
(* Claims about packing.                                                   *)
(***************************************************************************)
RECURSIVE TrimmedToLength(_)
\* every child of every record of the tree is exactly as long as its record
TrimmedToLength(x) ==
    x.kind = "RecordArray" =>
        \A i \in 1..Len(x.contents) :
            /\ x.contents[i].length = x.length
            /\ TrimmedToLength(x.contents[i])

\* C14: packing a record succeeds; the packed record has the length, the
\* fields and the nested value of the original, every child is trimmed to
\* exactly the record's length, and packing the packed record gives the packed
\* record again.
C14_PackingIdempotent ==
    (call.op = "packed" /\ pc = "return") =>
        /\ Ok(result)
        /\ result.value.kind = "RecordArray"
        /\ result.value.length = call.array.length
        /\ result.value.is_tuple = call.array.is_tuple
        /\ result.value.fields = call.array.fields
        /\ ToList(result.value) = ToList(call.array)
        /\ TrimmedToLength(result.value)
        /\ to_packed(result.value) = result

\* a record over a record, both with a child longer than its record, packed
C14_Witness ==
    /\ call.op = "packed"
    /\ pc = "return"
    /\ Ok(result)
    /\ call.array.length = 1
    /\ Len(call.array.contents) = 1
    /\ call.array.contents[1].kind = "RecordArray"
    /\ call.array.contents[1].length = 2
    /\ call.array.contents[1].contents[1].length = 3
    /\ result.value.contents[1].contents[1].data = <<11>>

(***************************************************************************)
(* Claims about the slicer.                                                *)
(***************************************************************************)
\* what a result is worth: the failure, the element, or the nested value
ValueOf(r) ==
    IF ~Ok(r) THEN r
    ELSE IF r.value.kind = "scalar" THEN r.value
    ELSE [list |-> ToList(r.value)]

\* x[a][b], reached in two steps or stopped at a failing x[a], is worth what
\* x[a, b] is worth
SuccessiveIsCombined ==
    /\ pc = "return" =>
          ValueOf(result) = ValueOf(getitem_next(call.x, <<call.a, call.b>>))
    /\ (pc = "first" /\ ~Ok(result)) =>
          result = getitem_next(call.x, <<call.a, call.b>>)

MergeableOperands ==
    /\ Returned("_mergemany")
    /\ Len(call.others) >= 1
    /\ \A k \in 1..Len(call.others) :
          /\ call.others[k].kind = "RecordArray"
          /\ RecordArray_mergeable_next(call.self, call.others[k], FALSE)

\* the child of a later operand that corresponds to the i-th child of self:
\* the i-th of a tuple, the first of the same name of a named record
Corresponding(array, i) ==
    IF call.self.is_tuple THEN array.contents[i]
    ELSE array.contents[CHOOSE j \in 1..Len(array.fields) :
                           /\ array.fields[j] = call.self.fields[i]
                           /\ \A h \in 1..(j - 1) :
                                 array.fields[h] # call.self.fields[i]]

RECURSIVE ConcatTrimmed(_, _)
\* the values of the corresponding children of the later operands, each cut
\* to the length of its operand, one operand after the other
ConcatTrimmed(operands, i) ==
    IF Len(operands) = 0 THEN <<>>
    ELSE SubSeq(ToList(Corresponding(Head(operands), i)), 1,
                Head(operands).length)
            \o ConcatTrimmed(Tail(operands), i)

\* the record of the summed length whose children are the concatenations
IsConcatenation ==
    /\ Ok(result)
    /\ result.value.kind = "RecordArray"
    /\ result.value.length = call.self.length + SumLengths(call.others)
    /\ Len(result.value.contents) = Len(call.self.contents)
    /\ \A i \in 1..Len(call.self.contents) :
          ToList(result.value.contents[i]) =
              SubSeq(ToList(call.self.contents[i]), 1, call.self.length)
                  \o ConcatTrimmed(call.others, i)

\* C16: merging mergeable records of known lengths, tuple or named, zero
\* fields included, returns a record whose length is the sum of the operands'
\* lengths and whose i-th child is the concatenation, in operand order, of the
\* operands' corresponding children, each trimmed to its operand's length.
C16_MergedRecord ==
    MergeableOperands => IsConcatenation

\* the field names of every operand are those of self, as often, in any order
PermutedFields ==
    \A k \in 1..Len(call.others) :
        SortedFieldsEqual(call.self.fields, call.others[k].fields)

RECURSIVE HasFields(_)
\* no record of the tree has zero fields
HasFields(x) ==
    x.kind = "RecordArray" =>
        /\ Len(x.contents) >= 1
        /\ \A i \in 1..Len(x.contents) : HasFields(x.contents[i])

\* the same for records of one child or more at every level, named ones
\* having the field names of self as often as self has them
C16_MergedRecordWithFields ==
    (/\ MergeableOperands
     /\ HasFields(call.self)
     /\ call.self.is_tuple \/ PermutedFields) => IsConcatenation

\* C17: merging named records whose field names are those of the first in
\* another order gives the fields in the order of the first operand, each
\* built from the same-named field of every operand.
C17_FieldOrderOfFirst ==
    (/\ MergeableOperands
     /\ ~call.self.is_tuple
     /\ PermutedFields
     /\ \E k \in 1..Len(call.others) : call.others[k].fields # call.self.fields)
    => /\ IsConcatenation
       /\ ~result.value.is_tuple
       /\ result.value.fields = call.self.fields

\* {x, 0} merged with {0, x}, whose children are one longer than the record
C17_Witness ==
    /\ Returned("_mergemany")
    /\ call.self.fields = <<"x", "0">>
    /\ ~call.self.is_tuple
    /\ Len(call.others) = 1
    /\ call.others[1].kind = "RecordArray"
    /\ call.others[1].fields = <<"0", "x">>
    /\ ~call.others[1].is_tuple
    /\ call.others[1].contents[1].length = 2
    /\ Ok(result)
    /\ result.value.contents[1].data = <<111, 221>>
    /\ result.value.contents[2].data = <<121, 211>>

(***************************************************************************)
(* Claims about the inferred length in the shape-only regime.              *)
(***************************************************************************)
\* a record of one child or more built without a length, shape-only
InferredShapeOnly ==
    /\ Returned("RecordArray")
    /\ call.length = None_
    /\ call.backend = "typetracer"
    /\ Len(call.contents) >= 1

\* the children in every order give the length the call gave
OrderIndependent ==
    \A p \in Permutations(1..Len(call.contents)) :
        LET permuted == RecordArray_init(
                            [i \in 1..Len(call.contents) |-> call.contents[p[i]]],
                            call.fields, None_, "", call.backend)
        IN Ok(permuted) /\ permuted.value.length = result.value.length

\* C18 as stated: the inferred length is Unknown if a child length is
\* Unknown, unless a later child of known length is smaller than what has
\* been inferred so far, which that known length then replaces; and the
\* order of the children does not matter.
C18_KnownLengthWins ==
    InferredShapeOnly =>
        /\ Ok(result)
        /\ result.value.length =
              MinLengthUnknownData_degrading(call.contents, 1, None_)
        /\ OrderIndependent

\* C18: the inferred length is Unknown if a child length is Unknown and the
\* minimum of the child lengths otherwise, whatever the order of the children.
C18_UnknownWins ==
    InferredShapeOnly =>
        /\ Ok(result)
        /\ result.value.length =
              IF KnownLengths(call.contents) THEN MinOfLengths(call.contents)
              ELSE unknown_length
        /\ OrderIndependent

\* an Unknown child followed by a child of length 1: the length is Unknown
C18_Witness ==
    /\ InferredShapeOnly
    /\ Len(call.contents) = 2
    /\ call.contents[1].length = unknown_length
    /\ call.contents[2].length = 1
    /\ Ok(result)
    /\ result.value.length = unknown_length

(***************************************************************************)
(* Claims about sorting a record.                                          *)
(***************************************************************************)
\* a sort or an argsort of a tuple or of a record of no fields has returned
SortOfFieldless ==
    /\ pc = "return"
    /\ call.op \in {"_sort_next", "_argsort_next"}
    /\ call.self.is_tuple \/ Len(call.self.fields) = 0

\* C19: sorting a record that has zero fields, or is a tuple, fails with
\* UnsupportedOperation (a NotImplementedError) and returns no array.
C19_SortFails ==
    SortOfFieldless => result.raised = "NotImplementedError"

\* the argsort of any record fails so
C19_ArgsortFails ==
    Returned("_argsort_next") => result.raised = "NotImplementedError"

(***************************************************************************)
(* Claims about the range of a record.                                     *)
(***************************************************************************)
\* a bound clamped to 0..L, None_ standing for the end given and a negative
\* bound counting from L
Clamped(bound, end, L) ==
    IF bound = None_ THEN end
    ELSE Min2(Max2(IF bound < 0 THEN bound + L ELSE bound, 0), L)

\* the record of the positions lo..hi-1 of self: the same fields, and each
\* child cut to the same positions
IsRangeOfSelf(lo, hi) ==
    /\ Ok(result)
    /\ result.value.kind = "RecordArray"
    /\ result.value.is_tuple = call.self.is_tuple
    /\ result.value.fields = call.self.fields
    /\ result.value.length = (IF hi <= lo THEN 0 ELSE hi - lo)
    /\ Len(result.value.contents) = Len(call.self.contents)
    /\ \A i \in 1..Len(call.self.contents) :
          ToList(result.value.contents[i]) =
              SubSeq(ToList(call.self.contents[i]), lo + 1, hi)

\* C20: in the materialised regime the range (start, stop) of a record of
\* known length L is a record of the same fields whose length is the number
\* of positions of the range clamped to [0, L], 0 when stop <= start, with
\* or without children, each child being cut by the same range.
C20_RangeOfRecord ==
    (Returned("_getitem_range") /\ known_data(call.self.backend)) =>
        IsRangeOfSelf(Clamped(call.start, 0, call.self.length),
                      Clamped(call.stop, call.self.length, call.self.length))

\* the same when the clamped range is not inverted
C20_RangeInOrder ==
    (/\ Returned("_getitem_range")
     /\ known_data(call.self.backend)
     /\ Clamped(call.start, 0, call.self.length)
            <= Clamped(call.stop, call.self.length, call.self.length)) =>
        IsRangeOfSelf(Clamped(call.start, 0, call.self.length),
                      Clamped(call.stop, call.self.length, call.self.length))

(***************************************************************************)
(* Claims about the gather of a record.                                    *)
(***************************************************************************)
\* C21: the gather of a record leaves the carry's index buffer as the caller
\* supplied it, whatever allow_lazy is (False, True or "copied"): negative
\* positions are normalised on a private copy only.
C21_CarryUnmodified ==
    Returned("_carry") => result.carry = call.carry

\* with allow_lazy False or True the caller's buffer is left alone
C21_CarryKeptUnlessCopied ==
    Returned("_carry") /\ call.allow_lazy # "copied" =>
        result.carry = call.carry

\* a lazy gather on a materialised record has returned
LazyGather ==
    /\ Returned("_carry")
    /\ call.allow_lazy # "False"
    /\ known_data(call.self.backend)

\* C26: a lazy gather on a materialised record of length L returns an Indexed
\* node over the record whose index holds p for a position p in [0, L) and
\* p + L for p in [-L, 0), and raises IndexBounds when a position is outside
\* [-L, L), below -L as well as at L or above.
C26_LazyGatherInRange ==
    LazyGather =>
        LET L == call.self.length
        IN IF \A k \in 1..Len(call.carry) :
                 -L <= call.carry[k] /\ call.carry[k] < L
           THEN /\ Ok(result)
                /\ result.value.kind = "IndexedArray"
                /\ result.value.content = call.self
                /\ result.value.index =
                      [k \in 1..Len(call.carry) |->
                          IF call.carry[k] >= 0 THEN call.carry[k]
                          ELSE call.carry[k] + L]
           ELSE result.raised = "IndexError"

\* the same without the positions below -L
C26_LazyGatherAboveLower ==
    LazyGather /\ (\A k \in 1..Len(call.carry) :
                      -call.self.length <= call.carry[k]) =>
        LET L == call.self.length
        IN IF \A k \in 1..Len(call.carry) : call.carry[k] < L
           THEN /\ Ok(result)
                /\ result.value.kind = "IndexedArray"
                /\ result.value.content = call.self
                /\ \A k \in 1..Len(call.carry) :
                      /\ result.value.index[k] \in 0..(L - 1)
                      /\ result.value.index[k] =
                            IF call.carry[k] >= 0 THEN call.carry[k]
                            ELSE call.carry[k] + L
           ELSE result.raised = "IndexError"

(***************************************************************************)
(* Claims about index-at-position with an index in range.                  *)
(***************************************************************************)
\* index-at-position has returned for an index in [-L, L), L known
GetitemAtInRange ==
    /\ Returned("_getitem_at")
    /\ call.self.length # unknown_length
    /\ -call.self.length <= call.where
    /\ call.where < call.self.length

\* the record of call.self at the position call.where counts from the end
\* when it is negative
IsRecordAtWhere ==
    /\ Ok(result)
    /\ result.value.kind = "Record"
    /\ result.value.array = call.self
    /\ result.value.at = IF call.where >= 0 THEN call.where
                         ELSE call.where + call.self.length

\* C27: for a record of known length L, index-at-position with any i in
\* [-L, L) succeeds and denotes the record at i (i >= 0) or at i + L (i < 0),
\* in the materialised and in the shape-only regime.
C27_InRangeSucceeds ==
    GetitemAtInRange => IsRecordAtWhere

\* the same in the materialised regime, and in the shape-only regime for the
\* indices that are not negative
C27_InRangeMaterialised ==
    GetitemAtInRange /\ (known_data(call.self.backend) \/ call.where >= 0) =>
        IsRecordAtWhere

(***************************************************************************)
(* Claims about the field names in the mergeability test and the merge.    *)
(***************************************************************************)
\* the merge of two named records has returned
MergedTwoNamed ==
    /\ Returned("_mergemany")
    /\ ~call.self.is_tuple
    /\ Len(call.others) = 1
    /\ call.others[1].kind = "RecordArray"
    /\ ~call.others[1].is_tuple

\* the merge has refused the operand for its field names: of a named operand
\* the names are the first thing the loop looks at
NamesRejected ==
    /\ result.raised = "AssertionError"
    /\ ~SortedFieldsEqual(call.self.fields, call.others[1].fields)

\* C28: the mergeability test and the merge agree on the field names of any
\* two named records, duplicate names included: when _mergeable_next reports
\* the two mergeable, _mergemany does not reject them for different sets of
\* field names, and when _mergemany accepts the names, the test finds the
\* same names in both.
C28_NamesAgree ==
    MergedTwoNamed =>
        /\ \A mergebool \in BOOLEAN :
              RecordArray_mergeable_next(call.self, call.others[1], mergebool)
                  => ~NamesRejected
        /\ ~NamesRejected => SetOf(call.self.fields) = SetOf(call.others[1].fields)

\* the same for two records that have no name twice
C28_NamesAgreeNoDuplicates ==
    MergedTwoNamed /\ (\A x \in {call.self, call.others[1]} :
                          Cardinality(SetOf(x.fields)) = Len(x.fields)) =>
        /\ \A mergebool \in BOOLEAN :
              RecordArray_mergeable_next(call.self, call.others[1], mergebool)
                  => ~NamesRejected
        /\ ~NamesRejected => SetOf(call.self.fields) = SetOf(call.others[1].fields)

(***************************************************************************)
(* Claims about the lengths reconstitute gives to the children.            *)
(***************************************************************************)
\* reconstitute has returned for a form of one of the kinds, given buffers of
\* exactly the elements the length requires, read as they are, and leaves
\* that hold more elements than any position of the buffers
IndexBuffersGiven(kinds) ==
    /\ Returned("from_buffers")
    /\ call.form.kind \in kinds
    /\ \A i \in 1..Len(Attributes(call.form)) :
          /\ Len(GivenBuffer(Attributes(call.form)[i]).data)
                = RequiredCount(Attributes(call.form)[i])
          /\ \/ GivenBuffer(Attributes(call.form)[i]).own
             \/ call.byteorder = native_byteorder
    /\ \A key \in {"node0-data", "node1-data"} :
          Len(call.container[key].data) > MaxBuffer

\* one more than the largest of a set of positions, 0 of the empty set
CoveringLength(positions) ==
    IF positions = {} THEN 0
    ELSE (CHOOSE v \in positions : \A w \in positions : w <= v) + 1

\* C24: for a List (starts and stops) form of any length >= 0, reconstitute
\* succeeds and gives the child the length of the largest stop of the
\* sublists that are not empty, 0 when there is none.
C24_ListChildLength ==
    IndexBuffersGiven({"ListForm"}) =>
        /\ Ok(result)
        /\ result.value.content.length =
              CoveringLength({GivenBuffer("stops").data[k] - 1 :
                                 k \in {j \in 1..call.length :
                                           GivenBuffer("starts").data[j]
                                              # GivenBuffer("stops").data[j]}})

\* the same when a sublist is not empty or the list has no sublist
C24_ListWithElements ==
    (/\ IndexBuffersGiven({"ListForm"})
     /\ \/ call.length = 0
        \/ \E j \in 1..call.length :
              GivenBuffer("starts").data[j] # GivenBuffer("stops").data[j])
        => C24_ListChildLength

\* the length the claim gives to the child of the node, the t-th child of
\* a union
ClaimedChildLength(t) ==
    CASE call.form.kind = "IndexedForm" ->
            CoveringLength({GivenBuffer("index").data[k] : k \in 1..call.length})
      [] call.form.kind = "IndexedOptionForm" ->
            CoveringLength({GivenBuffer("index").data[k] : k \in 1..call.length}
                           \cap Nat)
      [] call.form.kind = "ListOffsetForm" ->
            IF call.length = 0 THEN 0
            ELSE GivenBuffer("offsets").data[call.length + 1]
      [] call.form.kind = "UnionForm" ->
            CoveringLength({GivenBuffer("index").data[k] :
                               k \in {j \in 1..call.length :
                                         GivenBuffer("tags").data[j] = t - 1}})

RECURSIVE OptionOverOption(_)
\* an option or indexed node of the tree wraps another one directly
OptionOverOption(item) ==
    /\ IsContent(item)
    /\ item.kind \in {"ListOffsetArray", "ListArray", "RegularArray",
                      "IndexedArray", "IndexedOptionArray", "ByteMaskedArray",
                      "BitMaskedArray", "UnmaskedArray"}
    /\ \/ is_option_or_indexed(item) /\ is_option_or_indexed(item.content)
       \/ OptionOverOption(item.content)

\* C23: _normalise_item_nested terminates, with a result or an error of its
\* own, for every tree of finite depth, an option or indexed node that wraps
\* another one directly included: every recursive call is on a smaller
\* tree, so the normalisation never exhausts the call stack.
C23_NestedTerminates ==
    Returned("normalise_items") => result.raised # "RecursionError"

\* the same for the trees in which no option or indexed node wraps another
\* one directly
C23_TerminatesWithoutOptionOverOption ==
    (/\ Returned("normalise_items")
     /\ \A i \in 1..Len(call.where) : ~OptionOverOption(call.where[i]))
        => result.raised # "RecursionError"

(***************************************************************************)
(* Claims about the option nodes index normalisation produces.             *)
(***************************************************************************)
\* the entries of an index that are not negative, in order
NonMissing(index) ==
    Compress(index, [k \in 1..Len(index) |-> IF index[k] >= 0 THEN 1 ELSE 0], 1)

RECURSIVE OptionsNormalised(_)
\* every IndexedOption node of the tree has an index whose entries are -1 or
\* 0, 1, 2, ... in order, as many of these as the content is long
OptionsNormalised(x) ==
    IF x.kind = "IndexedOptionArray"
    THEN /\ \A k \in 1..Len(x.index) : x.index[k] >= -1
         /\ NonMissing(x.index) = [k \in 1..x.content.length |-> k - 1]
         /\ OptionsNormalised(x.content)
    ELSE IF x.kind = "ListOffsetArray" THEN OptionsNormalised(x.content)
    ELSE TRUE

RECURSIVE MissingAsMinusOne(_)
\* every IndexedOption node of the item marks its missing entries with -1
MissingAsMinusOne(item) ==
    IF ~IsContent(item) THEN TRUE
    ELSE /\ item.kind = "IndexedOptionArray" =>
               \A k \in 1..Len(item.index) : item.index[k] >= -1
         /\ item.kind \in {"ListOffsetArray", "ListArray", "RegularArray",
                           "IndexedArray", "IndexedOptionArray",
                           "ByteMaskedArray", "BitMaskedArray", "UnmaskedArray"}
               => MissingAsMinusOne(item.content)

\* C29: every IndexedOption node that index normalisation produces in the
\* materialised regime has an index whose entries are each -1 or a position
\* of the content, the entries that are not missing being 0, 1, 2, ... in
\* order and as many as the content is long, also when the input marks
\* missing entries with negative values other than -1.
C29_OptionsNormalised ==
    Returned("normalise_items") /\ Ok(result) =>
        \A i \in 1..Len(result.value) : OptionsNormalised(result.value[i])

\* the same for the inputs that mark every missing entry with -1
C29_NormalisedFromMinusOne ==
    (/\ Returned("normalise_items")
     /\ Ok(result)
     /\ \A i \in 1..Len(call.where) : MissingAsMinusOne(call.where[i]))
        => \A i \in 1..Len(result.value) : OptionsNormalised(result.value[i])

(***************************************************************************)
(* Claims about the array indices prepare_advanced_indexing emits.         *)
(***************************************************************************)
\* prepare_advanced_indexing has accepted an expression of integers and of
\* arrays of the given dtypes
PreparedArraysOf(dtypes) ==
    /\ Returned("prepare_advanced_indexing")
    /\ Ok(result)
    /\ \A i \in 1..Len(call.items) :
          \/ call.items[i].kind = "int"
          \/ call.items[i].kind = "array" /\ call.items[i].dtype \in dtypes

\* the array indices of the result are flat and of one length, and an
\* expression of integers alone is returned as integers
IndicesOfOneLength ==
    /\ \A i, j \in 1..Len(result.value) :
          IsIndex(result.value[i]) /\ IsIndex(result.value[j]) =>
              Len(result.value[i].data) = Len(result.value[j].data)
    /\ (\A i \in 1..Len(call.items) : call.items[i].kind = "int") =>
          /\ Len(result.value) = Len(call.items)
          /\ \A i \in 1..Len(result.value) : result.value[i].kind = "int"

\* C30: the array indices prepare_advanced_indexing emits for one expression
\* are one-dimensional and all of the same length, for every accepted
\* combination of integers, integer arrays and boolean arrays; integers
\* alone yield plain integers and no array index.
C30_IndicesOfOneLength ==
    PreparedArraysOf({"int64", "int32", "bool"}) => IndicesOfOneLength

\* the same for integers and integer arrays
C30_IntegerIndicesOfOneLength ==
    PreparedArraysOf({"int64", "int32"}) => IndicesOfOneLength

(***************************************************************************)
(* Claims about the common backend.                                        *)
(***************************************************************************)
\* the backends of the sliced array and of the one array among the items
BackendsOfCall == {call.backend, call.where[1].backend}

\* the normalisation of an expression that starts with a list array, other
\* items being ranges, has returned
NormalisedListItem ==
    /\ Returned("normalise_items")
    /\ call.where[1].kind = "ListOffsetArray"
    /\ call.where[1].content.kind = "NumpyArray"
    /\ call.where[1].content.dtype = "int64"
    /\ \A i \in 2..Len(call.where) : call.where[i].kind = "slice"

\* C22: an operation over arrays of two different concrete array libraries
\* (jax and cpu) fails with "cannot operate on arrays with incompatible
\* array libraries"; over a concrete array and a shape-only one it succeeds
\* and the result is shape-only; index normalisation normalises every item
\* against the one common backend.
C22_CommonBackend ==
    NormalisedListItem =>
        IF BackendsOfCall = {"cpu", "jax"}
        THEN result.raised =
                "ValueError: cannot operate on arrays with incompatible array libraries"
        ELSE /\ Ok(result)
             /\ result.value[1].kind = "ListOffsetArray"
             /\ result.value[1].backend =
                   IF "typetracer" \in BackendsOfCall THEN "typetracer"
                   ELSE call.backend

\* a shape-only item in the slice of a concrete array
C22_Witness ==
    /\ NormalisedListItem
    /\ call.backend = "jax"
    /\ call.where[1].backend = "typetracer"
    /\ Ok(result)
    /\ result.value[1].backend = "typetracer"

====
